---- MODULE Spec2Model ----
(***************************************************************************)
(* A model of the eosguide site: the opportunity list page (the app.js    *)
(* kept in scripts/issue_to_json.js lines 382-866), its saved-item store,  *)
(* the ingestion script that maintains data/opportunities.json, the CSV    *)
(* page (app.js) and the static card page (src/assets/app.js), single      *)
(* calls of calculateDaysLeft and getUrgencyBadge on given arguments, the  *)
(* copy of the ingestion script that also writes an article draft          *)
(* (scripts/issue_to_json.js lines 123-380), and the newsletter subscribe  *)
(* function (netlify/functions/buttondown-subscribe.js).                   *)
(*                                                                         *)
(* Texts are sequences of one-character strings, so that toLowerCase,      *)
(* includes, trim, JSON.stringify / JSON.parse and the string comparison   *)
(* of dates are computed character by character, as the code does.         *)
(***************************************************************************)
EXTENDS Integers, Sequences, FiniteSets, TLC

(***************************************************************************)
(* Bounds of the model                                                     *)
(***************************************************************************)
\* longest dataset served as /data/opportunities.json
MaxRecs == 2
\* longest data/opportunities.json an ingestion run starts from
MaxFile == 2
\* days the ingestion clock may advance
MaxDays == 2

(***************************************************************************)
(* JavaScript values                                                       *)
(***************************************************************************)
\* the value of an absent property; no text contains this element
undefined == <<"<undefined>">>
\* localStorage.getItem of an absent key
null == <<"<null>">>

\* JavaScript falsiness of a text-or-absent value (v || fallback)
Falsy(v) == v = undefined \/ v = null \/ v = <<>>

Or(v, fallback) == IF Falsy(v) THEN fallback ELSE v

Range(s) == {s[i] : i \in DOMAIN s}

Uppers == <<"A","B","C","D","E","F","G","H","I","J","K","L","M",
            "N","O","P","Q","R","S","T","U","V","W","X","Y","Z">>
Lowers == <<"a","b","c","d","e","f","g","h","i","j","k","l","m",
            "n","o","p","q","r","s","t","u","v","w","x","y","z">>

UpperToLower ==
  [c \in Range(Uppers) |-> Lowers[CHOOSE i \in DOMAIN Uppers : Uppers[i] = c]]

LowerChar(c) == IF c \in DOMAIN UpperToLower THEN UpperToLower[c] ELSE c

\* String.prototype.toLowerCase
toLowerCase(s) == [i \in DOMAIN s |-> LowerChar(s[i])]

\* String.prototype.includes: needle occurs as a contiguous substring
includes(hay, needle) ==
  \E k \in 0..(Len(hay) - Len(needle)) :
     SubSeq(hay, k + 1, k + Len(needle)) = needle

\* String.prototype.trim (the only white space of the model is the blank)
trim(s) ==
  LET nonblank == {i \in DOMAIN s : s[i] # " "} IN
  IF nonblank = {} THEN <<>>
  ELSE SubSeq(s, CHOOSE i \in nonblank : \A j \in nonblank : i <= j,
                 CHOOSE i \in nonblank : \A j \in nonblank : j <= i)

\* Array.prototype.includes on an array of texts
ArrayIncludes(arr, x) == \E i \in DOMAIN arr : arr[i] = x

\* Array.prototype.filter(id => id !== x)
ArrayWithout(arr, x) == SelectSeq(arr, LAMBDA e : e # x)

(***************************************************************************)
(* The literal texts of the programs and of the data of the model          *)
(***************************************************************************)
Txt ==
  [
    ongoing      |-> <<"o","n","g","o","i","n","g">>,
    none         |-> <<"n","o","n","e">>,
    n_a          |-> <<"n","/","a">>,
    na           |-> <<"n","a">>,
    rolling      |-> <<"r","o","l","l","i","n","g">>,
    varies       |-> <<"v","a","r","i","e","s">>,
    tbd          |-> <<"t","b","d">>,
    all          |-> <<"a","l","l">>,
    saved        |-> <<"s","a","v","e","d">>,
    ending       |-> <<"e","n","d","i","n","g">>,
    national     |-> <<"n","a","t","i","o","n","a","l">>,
    Nationwide   |-> <<"N","a","t","i","o","n","w","i","d","e">>,
    Medium       |-> <<"M","e","d","i","u","m">>,
    a            |-> <<"a">>,
    b            |-> <<"b">>,
    d            |-> <<"d">>,
    e            |-> <<"e">>,
    f            |-> <<"f">>,
    GrantX       |-> <<"G","r","a","n","t"," ","X">>,
    RefundY      |-> <<"R","e","f","u","n","d"," ","Y">>,
    grantaid     |-> <<"g","r","a","n","t"," ","a","i","d">>,
    taxes        |-> <<"t","a","x","e","s">>,
    Grants       |-> <<"G","r","a","n","t","s">>,
    Refunds      |-> <<"R","e","f","u","n","d","s">>,
    CA           |-> <<"C","A">>,
    TX           |-> <<"T","X">>,
    rollingbasis |-> <<"r","o","l","l","i","n","g"," ","b","a","s","i","s">>,
    grant        |-> <<"g","r","a","n","t">>,
    Other        |-> <<"O","t","h","e","r">>,
    u1           |-> <<"u","1">>,
    u2           |-> <<"u","2">>,
    slashdate    |-> <<"1","1","/","0","5","/","2","0","2","6">>,
    blankdate    |-> <<"9","9","9","9","-","1","2","-","3","1">>,
    MT           |-> <<"M","T">>,
    All          |-> <<"A","l","l">>,
    Fast         |-> <<"F","a","s","t">>,
    Slow         |-> <<"S","l","o","w">>,
    high         |-> <<"h","i","g","h">>,
    medium       |-> <<"m","e","d","i","u","m">>,
    low          |-> <<"l","o","w">>,
    High         |-> <<"H","i","g","h">>,
    Easy         |-> <<"E","a","s","y">>,
    ID           |-> <<"I","D">>,
    open         |-> <<"o","p","e","n">>,
    closed       |-> <<"c","l","o","s","e","d">>,
    Veterans     |-> <<"V","e","t","e","r","a","n","s">>,
    CAspace      |-> <<"C","A"," ">>,
    day1         |-> <<"2","0","2","6","-","0","1","-","0","1">>,
    day2         |-> <<"2","0","2","6","-","0","1","-","0","2">>,
    AllStates    |-> <<"A","l","l"," ","S","t","a","t","e","s">>,
    TXpadded     |-> <<" ","T","X"," ">> ]

(***************************************************************************)
(* Code-unit order of the characters the model uses (their ASCII order),   *)
(* for the < comparison of strings                                         *)
(***************************************************************************)
AsciiOrder == <<" ", "\"", ",", "-", "/",
                "0","1","2","3","4","5","6","7","8","9">> \o Uppers \o
              <<"[", "]">> \o Lowers \o <<"{", "}">>

\* a < b on strings: lexicographic by code unit, a proper prefix is smaller
StrLess(a, b) ==
  LET Code(c) == CHOOSE i \in DOMAIN AsciiOrder : AsciiOrder[i] = c IN
  \E k \in 1..Len(b) :
     /\ \A j \in 1..(k - 1) : j <= Len(a) /\ a[j] = b[j]
     /\ k - 1 <= Len(a)
     /\ (k > Len(a) \/ Code(a[k]) < Code(b[k]))

(***************************************************************************)
(* Stable sort by a comparator, as Array.prototype.sort with a consistent  *)
(* comparator; the comparisons are handed over as a table over the indices *)
(***************************************************************************)
InsertStable(sorted, x, before) ==
  LET later == {k \in DOMAIN sorted : before[x][sorted[k]]} IN
  IF later = {} THEN Append(sorted, x)
  ELSE LET p == CHOOSE k \in later : \A j \in later : k <= j IN
       SubSeq(sorted, 1, p - 1) \o <<x>> \o SubSeq(sorted, p, Len(sorted))

\* s sorted, given before[i][j] = "compare(s[i], s[j]) < 0"
SortBy(s, before) ==
  LET F[i \in 0..Len(s)] ==
        IF i = 0 THEN <<>> ELSE InsertStable(F[i - 1], i, before)
  IN [k \in DOMAIN s |-> s[F[Len(s)][k]]]

\* number of occurrences of x in s
Count(s, x) == Cardinality({i \in DOMAIN s : s[i] = x})

SamePopulation(s, t) ==
  /\ Len(s) = Len(t)
  /\ \A x \in Range(s) \cup Range(t) : Count(s, x) = Count(t, x)

(***************************************************************************)
(* Calendar arithmetic behind Date: days since 1970-01-01 of a civil date  *)
(* and back (proleptic Gregorian calendar)                                 *)
(***************************************************************************)
DaysFromCivil(year, month, day) ==
  LET y   == IF month <= 2 THEN year - 1 ELSE year
      era == y \div 400
      yoe == y - era * 400
      mp  == IF month > 2 THEN month - 3 ELSE month + 9
      doy == (153 * mp + 2) \div 5 + day - 1
      doe == yoe * 365 + yoe \div 4 - yoe \div 100 + doy
  IN era * 146097 + doe - 719468

CivilFromDays(z) ==
  LET zz  == z + 719468
      era == zz \div 146097
      doe == zz - era * 146097
      yoe == (doe - doe \div 1460 + doe \div 36524 - doe \div 146096) \div 365
      doy == doe - (365 * yoe + yoe \div 4 - yoe \div 100)
      mp  == (5 * doy + 2) \div 153
      d   == doy - (153 * mp + 2) \div 5 + 1
      m   == IF mp < 10 THEN mp + 3 ELSE mp - 9
      y   == yoe + era * 400 + (IF m <= 2 THEN 1 ELSE 0)
  IN [year |-> y, month |-> m, day |-> d]

DaysInMonth(y, m) ==
  LET IsLeap == (y % 4 = 0 /\ y % 100 # 0) \/ y % 400 = 0 IN
  IF m = 2 THEN (IF IsLeap THEN 29 ELSE 28)
  ELSE IF m \in {4, 6, 9, 11} THEN 30 ELSE 31

Digits == <<"0","1","2","3","4","5","6","7","8","9">>

IsDigit(c) == \E i \in DOMAIN Digits : Digits[i] = c

\* the number written by a sequence of digits
DigitsToNat(s) ==
  LET DigitVal(c) == (CHOOSE i \in DOMAIN Digits : Digits[i] = c) - 1
      F[i \in 0..Len(s)] ==
        IF i = 0 THEN 0 ELSE 10 * F[i - 1] + DigitVal(s[i])
  IN F[Len(s)]

\* String(n).padStart(width, "0") for n >= 0
PadStart(n, width) ==
  [i \in 1..width |-> Digits[((n \div (10 ^ (width - i))) % 10) + 1]]

\* `${yyyy}-${mm}-${dd}` of the date `days` days after 1970-01-01
ISODate(days) ==
  LET c == CivilFromDays(days) IN
  PadStart(c.year, 4) \o <<"-">> \o PadStart(c.month, 2) \o <<"-">>
    \o PadStart(c.day, 2)

\* /^\d{4}-\d{2}-\d{2}$/
LooksISO(s) ==
  /\ Len(s) = 10
  /\ s[5] = "-" /\ s[8] = "-"
  /\ \A i \in {1, 2, 3, 4, 6, 7, 9, 10} : IsDigit(s[i])

NaN == -999999999

\* Date.parse of a date-only ISO string: UTC midnight of that date, in hours
\* since the epoch; NaN for an illegal month or day and for the other
\* strings of the model (which calculateDaysLeft then splits on "/")
DateParse(raw) ==
  IF ~LooksISO(raw) THEN NaN
  ELSE LET y == DigitsToNat(SubSeq(raw, 1, 4))
           m == DigitsToNat(SubSeq(raw, 6, 7))
           d == DigitsToNat(SubSeq(raw, 9, 10))
       IN IF m \in 1..12 /\ d \in 1..DaysInMonth(y, m)
          THEN 24 * DaysFromCivil(y, m, d)
          ELSE NaN

\* Date.prototype.setHours(0,0,0,0): the local midnight at or before the
\* instant t, for a zone tz hours ahead of UTC (instants are whole hours)
LocalMidnight(t, tz) == ((t + tz) \div 24) * 24 - tz

\* new Date(year, monthIndex + 1, day) at local midnight
LocalDate(year, month, day, tz) ==
  LET y == year + (month - 1) \div 12
      m == ((month - 1) % 12) + 1
  IN 24 * (DaysFromCivil(y, m, 1) + day - 1) - tz

\* Math.round(diffHours / 24)
RoundDays(diffHours) == (2 * diffHours + 24) \div 48

\* raw.split('/')
SplitSlash(raw) ==
  LET cuts == {i \in DOMAIN raw : raw[i] = "/"}
      F[i \in 0..Len(raw)] ==
        IF i = 0 THEN <<<<>>>>
        ELSE IF raw[i] = "/" THEN Append(F[i - 1], <<>>)
        ELSE [F[i - 1] EXCEPT ![Len(F[i - 1])] = Append(@, raw[i])]
  IN F[Len(raw)]

\* parseInt(part, 10): the number written by the leading digits of the
\* trimmed part, NaN when there is none
parseInt(part) ==
  LET t == trim(part)
      n == IF \E i \in DOMAIN t : ~IsDigit(t[i])
           THEN (CHOOSE i \in DOMAIN t :
                   ~IsDigit(t[i]) /\ \A j \in 1..(i - 1) : IsDigit(t[j])) - 1
           ELSE Len(t)
  IN IF n = 0 THEN NaN ELSE DigitsToNat(SubSeq(t, 1, n))

\* calculateDaysLeft at the instant nowH (hours since the epoch, UTC) in a
\* zone tz hours ahead of UTC
calculateDaysLeft(deadlineStr, nowH, tz) ==
  IF Falsy(deadlineStr) THEN -1
  ELSE
  LET raw   == trim(deadlineStr)
      lower == toLowerCase(raw)
      today == LocalMidnight(nowH, tz)
  IN
  IF raw = <<>> THEN -1
  ELSE IF lower \in {Txt.ongoing, Txt.none, Txt.n_a, Txt.na} THEN 999
  ELSE IF includes(lower, Txt.rolling) \/ includes(lower, Txt.varies)
          \/ includes(lower, Txt.tbd) THEN 999
  ELSE IF DateParse(raw) # NaN
       THEN RoundDays(LocalMidnight(DateParse(raw), tz) - today)
  ELSE
  LET parts == SplitSlash(raw) IN
  IF Len(parts) # 3 THEN -1
  ELSE
  LET month == parseInt(parts[1])
      day   == parseInt(parts[2])
      year  == parseInt(parts[3])
  IN IF month \in {NaN, 0} \/ day \in {NaN, 0} \/ year \in {NaN, 0} THEN -1
     ELSE RoundDays(LocalMidnight(LocalDate(year, month, day, tz), tz) - today)

(***************************************************************************)
(* JSON text of the saved list.  JSON.stringify of an array of strings;    *)
(* JSON.parse of the texts the store of the model can hold: an array of    *)
(* strings, the empty object, or a text that is not JSON (a SyntaxError).  *)
(* The ids of the model hold no quote or backslash, so nothing is escaped. *)
(***************************************************************************)
Quoted(s) == <<"\"">> \o s \o <<"\"">>

JSONstringify(arr) ==
  LET F[i \in 0..Len(arr)] ==
        IF i = 0 THEN <<>>
        ELSE IF i = 1 THEN Quoted(arr[1])
        ELSE F[i - 1] \o <<",">> \o Quoted(arr[i])
  IN <<"[">> \o F[Len(arr)] \o <<"]">>

\* the elements of the array text s from position p on (p is where an
\* element must start), or <<"error">> when the text is malformed
RECURSIVE ParseElements(_, _, _)
ParseElements(s, p, acc) ==
  IF p > Len(s) \/ s[p] # "\"" THEN [ok |-> FALSE, items |-> <<>>]
  ELSE
  LET closers == {q \in (p + 1)..Len(s) : s[q] = "\""} IN
  IF closers = {} THEN [ok |-> FALSE, items |-> <<>>]
  ELSE
  LET q    == CHOOSE q \in closers : \A r \in closers : q <= r
      item == SubSeq(s, p + 1, q - 1)
  IN IF q + 1 = Len(s) /\ s[q + 1] = "]"
       THEN [ok |-> TRUE, items |-> Append(acc, item)]
     ELSE IF q + 1 < Len(s) /\ s[q + 1] = ","
       THEN ParseElements(s, q + 2, Append(acc, item))
     ELSE [ok |-> FALSE, items |-> <<>>]

\* JSON.parse: [threw, kind, items]
JSONparse(s) ==
  IF s = <<"[", "]">> THEN [threw |-> FALSE, kind |-> "array", items |-> <<>>]
  ELSE IF s = <<"{", "}">>
    THEN [threw |-> FALSE, kind |-> "object", items |-> <<>>]
  ELSE IF Len(s) >= 2 /\ s[1] = "["
    THEN LET r == ParseElements(s, 2, <<>>) IN
         IF r.ok THEN [threw |-> FALSE, kind |-> "array", items |-> r.items]
         ELSE [threw |-> TRUE, kind |-> "none", items |-> <<>>]
  ELSE [threw |-> TRUE, kind |-> "none", items |-> <<>>]

(***************************************************************************)
(* The list page: constants of app.js                                      *)
(***************************************************************************)

\* stateMapping, as <<code, full name>> pairs
StateTable ==
  <<
     <<<<"A","L">>, <<"A","l","a","b","a","m","a">>>>,
     <<<<"A","K">>, <<"A","l","a","s","k","a">>>>,
     <<<<"A","Z">>, <<"A","r","i","z","o","n","a">>>>,
     <<<<"A","R">>, <<"A","r","k","a","n","s","a","s">>>>,
     <<<<"C","A">>, <<"C","a","l","i","f","o","r","n","i","a">>>>,
     <<<<"C","O">>, <<"C","o","l","o","r","a","d","o">>>>,
     <<<<"C","T">>, <<"C","o","n","n","e","c","t","i","c","u","t">>>>,
     <<<<"D","E">>, <<"D","e","l","a","w","a","r","e">>>>,
     <<<<"F","L">>, <<"F","l","o","r","i","d","a">>>>,
     <<<<"G","A">>, <<"G","e","o","r","g","i","a">>>>,
     <<<<"H","I">>, <<"H","a","w","a","i","i">>>>,
     <<<<"I","D">>, <<"I","d","a","h","o">>>>,
     <<<<"I","L">>, <<"I","l","l","i","n","o","i","s">>>>,
     <<<<"I","N">>, <<"I","n","d","i","a","n","a">>>>,
     <<<<"I","A">>, <<"I","o","w","a">>>>,
     <<<<"K","S">>, <<"K","a","n","s","a","s">>>>,
     <<<<"K","Y">>, <<"K","e","n","t","u","c","k","y">>>>,
     <<<<"L","A">>, <<"L","o","u","i","s","i","a","n","a">>>>,
     <<<<"M","E">>, <<"M","a","i","n","e">>>>,
     <<<<"M","D">>, <<"M","a","r","y","l","a","n","d">>>>,
     <<<<"M","A">>, <<"M","a","s","s","a","c","h","u","s","e","t","t","s">>>>,
     <<<<"M","I">>, <<"M","i","c","h","i","g","a","n">>>>,
     <<<<"M","N">>, <<"M","i","n","n","e","s","o","t","a">>>>,
     <<<<"M","S">>, <<"M","i","s","s","i","s","s","i","p","p","i">>>>,
     <<<<"M","O">>, <<"M","i","s","s","o","u","r","i">>>>,
     <<<<"M","T">>, <<"M","o","n","t","a","n","a">>>>,
     <<<<"N","E">>, <<"N","e","b","r","a","s","k","a">>>>,
     <<<<"N","V">>, <<"N","e","v","a","d","a">>>>,
     <<<<"N","H">>, <<"N","e","w"," ","H","a","m","p","s","h","i","r","e">>>>,
     <<<<"N","J">>, <<"N","e","w"," ","J","e","r","s","e","y">>>>,
     <<<<"N","M">>, <<"N","e","w"," ","M","e","x","i","c","o">>>>,
     <<<<"N","Y">>, <<"N","e","w"," ","Y","o","r","k">>>>,
     <<<<"N","C">>, <<"N","o","r","t","h"," ","C","a","r","o","l","i","n","a">>>>,
     <<<<"N","D">>, <<"N","o","r","t","h"," ","D","a","k","o","t","a">>>>,
     <<<<"O","H">>, <<"O","h","i","o">>>>,
     <<<<"O","K">>, <<"O","k","l","a","h","o","m","a">>>>,
     <<<<"O","R">>, <<"O","r","e","g","o","n">>>>,
     <<<<"P","A">>, <<"P","e","n","n","s","y","l","v","a","n","i","a">>>>,
     <<<<"R","I">>, <<"R","h","o","d","e"," ","I","s","l","a","n","d">>>>,
     <<<<"S","C">>, <<"S","o","u","t","h"," ","C","a","r","o","l","i","n","a">>>>,
     <<<<"S","D">>, <<"S","o","u","t","h"," ","D","a","k","o","t","a">>>>,
     <<<<"T","N">>, <<"T","e","n","n","e","s","s","e","e">>>>,
     <<<<"T","X">>, <<"T","e","x","a","s">>>>,
     <<<<"U","T">>, <<"U","t","a","h">>>>,
     <<<<"V","T">>, <<"V","e","r","m","o","n","t">>>>,
     <<<<"V","A">>, <<"V","i","r","g","i","n","i","a">>>>,
     <<<<"W","A">>, <<"W","a","s","h","i","n","g","t","o","n">>>>,
     <<<<"W","V">>, <<"W","e","s","t"," ","V","i","r","g","i","n","i","a">>>>,
     <<<<"W","I">>, <<"W","i","s","c","o","n","s","i","n">>>>,
     <<<<"W","Y">>, <<"W","y","o","m","i","n","g">>>>,
     <<<<"D","C">>, <<"D","i","s","t","r","i","c","t"," ","o","f"," ","C","o","l","u","m","b","i","a">>>>
  >>

\* stateMapping[code]: undefined for a key the table does not hold
stateMapping(code) ==
  IF \E i \in DOMAIN StateTable : StateTable[i][1] = code
  THEN StateTable[CHOOSE i \in DOMAIN StateTable : StateTable[i][1] = code][2]
  ELSE undefined

(***************************************************************************)
(* The list page: the data it is served                                    *)
(***************************************************************************)

\* the day the page is opened, in days since 1970-01-01
Today == DaysFromCivil(2026, 11, 4)

\* the instants the page may be opened at (hours since the epoch, UTC) and
\* the zones of the browser (hours ahead of UTC)
NoonUTC == [nowH |-> 24 * Today + 12, tz |-> 0]
Clocks  == {NoonUTC, [nowH |-> 24 * Today + 12, tz |-> -5]}

\* records of /data/opportunities.json; an absent urgencyDays is 0 (it is
\* only ever read through `urgencyDays || ...`, which treats the two alike)
RawRecords ==
  { [id |-> Txt.a, title |-> Txt.GrantX, description |-> undefined,
     category |-> Txt.Grants, state |-> Txt.Nationwide, deadline |-> <<>>,
     featured |-> TRUE, urgencyDays |-> 5, difficulty |-> undefined],
    [id |-> Txt.b, title |-> Txt.RefundY, description |-> Txt.taxes,
     category |-> Txt.Refunds, state |-> Txt.CA, deadline |-> ISODate(Today + 2),
     featured |-> FALSE, urgencyDays |-> 0, difficulty |-> Txt.Medium],
    [id |-> undefined, title |-> Txt.RefundY, description |-> Txt.grantaid,
     category |-> Txt.saved, state |-> stateMapping(Txt.CA),
     deadline |-> ISODate(Today), featured |-> FALSE, urgencyDays |-> 0,
     difficulty |-> undefined],
    [id |-> Txt.d, title |-> Txt.GrantX, description |-> <<>>,
     category |-> Txt.Grants, state |-> Txt.TX,
     deadline |-> ISODate(Today + 1200), featured |-> FALSE,
     urgencyDays |-> 0, difficulty |-> undefined],
    [id |-> Txt.e, title |-> undefined, description |-> Txt.taxes,
     category |-> undefined, state |-> undefined,
     deadline |-> Txt.rollingbasis, featured |-> TRUE, urgencyDays |-> 0,
     difficulty |-> undefined],
    [id |-> Txt.f, title |-> Txt.RefundY, description |-> undefined,
     category |-> Txt.ending, state |-> Txt.TX, deadline |-> <<>>,
     featured |-> FALSE, urgencyDays |-> 0, difficulty |-> undefined] }

SeqsUpTo(S, n) == UNION {[1..k -> S] : k \in 0..n}

\* the arrays the data file may hold: up to MaxRecs records, each once
Datasets ==
  {d \in SeqsUpTo(RawRecords, MaxRecs) :
      \A i, j \in DOMAIN d : d[i] = d[j] => i = j}

\* the values localStorage may hold under 'eosguide-saved' when the page
\* opens: none, a saved list, the empty object, a truncated text
StoredValues ==
  { null, JSONstringify(<<Txt.a>>), <<"{", "}">>, <<"[", "\"", "a">> }

\* what the page finds when it opens: every dataset with an empty store at
\* noon UTC, and every store and zone with the datasets of StoreDatasets
StoreDatasets ==
  {d \in Datasets : \A i \in DOMAIN d : i = 1 /\ d[i].id \in {Txt.a, Txt.b}}

Environments ==
  {[data |-> d, clock |-> NoonUTC, stored |-> null] : d \in Datasets}
  \cup
  {[data |-> d, clock |-> c, stored |-> v] :
      d \in StoreDatasets, c \in Clocks, v \in StoredValues}

\* what the visitor may enter. List page: the keys of `categories`, which
\* renderCategories makes the buttons of, the texts typed into the search
\* box, the values of the state selector. CSV page: the texts typed into the
\* search box and the values of the three selects. Static page: the texts
\* typed into #searchInput and the values of #stateSelector.
Inputs ==
  [ category     |-> {Txt.all, Txt.saved, Txt.ending},
    search       |-> {<<>>, Txt.grant},
    state        |-> {<<>>, Txt.Nationwide, Txt.CA},
    csvSearch    |-> {<<>>, Txt.grant},
    speed        |-> {<<>>, Txt.Fast},
    difficulty   |-> {<<>>, Txt.Easy},
    proof        |-> {<<>>, Txt.ID},
    staticSearch |-> {<<>>, Txt.grant},
    staticState  |-> {<<>>, Txt.AllStates, Txt.CA} ]

(***************************************************************************)
(* The list page: state                                                    *)
(***************************************************************************)
VARIABLES
  pc,                  \* "start", "ready" (script ran), "crashed" (it threw)
  clock,               \* the instant and zone of the browser
  serverData,          \* the array /data/opportunities.json holds
  stored,              \* localStorage['eosguide-saved']
  savedOpportunities,  \* [kind, items]: the parsed saved list
  opportunities,       \* the loaded, normalized records
  currentCategory,
  currentSearch,
  selectedState,       \* stateSelector.value
  pending,             \* loadOpportunities calls whose fetch is in flight
  grid,                \* opportunitiesGrid: [error, cards]
  noResults,           \* "hidden", "saved" or "search"
  fresh,               \* the last renderOpportunities call ran to its end
  tog                  \* the last toggles: [phase, id, saved0]

pageVars == <<pc, clock, serverData, stored, savedOpportunities, opportunities,
              currentCategory, currentSearch, selectedState, pending,
              grid, noResults, fresh, tog>>

(***************************************************************************)
(* The ingestion script: state                                             *)
(***************************************************************************)
VARIABLES
  dataFile,            \* the array data/opportunities.json holds
  utcToday,            \* the UTC date of the runner, in days since 1970-01-01
  wrote,               \* main wrote the file on the date utcToday
  newItem              \* the newItem of the last run that built one: <<>> or <<item>>

ingestVars == <<dataFile, utcToday, wrote, newItem>>

\* a run of the script, and what the second copy of main (lines 282-380)
\* does after its write
VARIABLES
  runPc,               \* "off", or where a run of the second copy stands:
                       \* "fetch" (before fetchPageText), "summarize",
                       \* "done" (the process has ended)
  exitCode,            \* of the last run: "none", "running", "ok", "failed"
  issue,               \* the issue of the last run left a needed field blank
  rawText,             \* rawText of the last run
  ai,                  \* what callOpenAI did in the last run
  draft                \* the draft file of the last run: <<>> or <<markdown>>

draftVars == <<runPc, exitCode, issue, rawText, ai, draft>>

(***************************************************************************)
(* The CSV page (app.js): state                                            *)
(***************************************************************************)
VARIABLES
  csvPc,               \* "off", "start", "loading" (Papa.parse runs), "ready",
                       \* "failed" (the error callback ran)
  csvFile,             \* the rows of opportunities_tagged_with_state.csv
  ALL_ROWS,
  CURRENT_STATE,
  CURRENT_CATEGORY,
  searchInput,         \* the values of the five controls
  speedSelect,
  difficultySelect,
  proofSelect,
  stateOptions,        \* the options initStateSelector built
  chips,               \* the labels of the chips initCategoryChips built
  timer,               \* the debounce timeout of the search box: 0 when none
                       \* is set, else the eighths of a second until it fires
  burst,               \* the key strokes in the search box: [quiet, keys, owed]
  csvView              \* [spotlight, money, assist]: the rows on the page

csvVars == <<csvPc, csvFile, ALL_ROWS, CURRENT_STATE, CURRENT_CATEGORY,
             searchInput, speedSelect, difficultySelect, proofSelect,
             stateOptions, chips, timer, burst, csvView>>

(***************************************************************************)
(* The static page (src/assets/app.js): state                              *)
(***************************************************************************)
VARIABLES
  stPc,                \* "off" or "ready" (the listeners are registered)
  stCards,             \* the cards of #opportunitiesGrid: [text, loc]
  stDisplay,           \* for each card, style.display is "" (TRUE) or "none"
  stSearch,            \* #searchInput.value
  stState              \* #stateSelector.value

staticVars == <<stPc, stCards, stDisplay, stSearch, stState>>

(***************************************************************************)
(* Calls of the list page's functions on given arguments: state            *)
(***************************************************************************)
VARIABLES
  callPc,              \* "off", "called" (the arguments are bound), "returned"
  callIn,              \* the function and its arguments
  callOut              \* the value returned

callVars == <<callPc, callIn, callOut>>

(***************************************************************************)
(* The subscribe function (netlify/functions/buttondown-subscribe.js):     *)
(* state                                                                   *)
(***************************************************************************)
VARIABLES
  subPc,               \* "off", "ready" (deployed), "returned" (a call ended)
  subEvent,            \* the event of the last call
  subUpstream,         \* what the mailing-list endpoint did with its request
  subSent,             \* the bodies of the requests fetch sent in that call
  subResponse,         \* what the call returned, or that it threw
  subReceived          \* the bodies the endpoint has received so far

subVars == <<subPc, subEvent, subUpstream, subSent, subResponse, subReceived>>

\* what the steps of each program leave alone
notPage   == <<ingestVars, draftVars, csvVars, staticVars, callVars, subVars>>
notIngest == <<pageVars, csvVars, staticVars, callVars, subVars>>
notCsv    == <<pageVars, ingestVars, draftVars, staticVars, callVars, subVars>>
notStatic == <<pageVars, ingestVars, draftVars, csvVars, callVars, subVars>>
notCalls  == <<pageVars, ingestVars, draftVars, csvVars, staticVars, subVars>>

(***************************************************************************)
(* loadOpportunities: the record built from a raw one                      *)
(***************************************************************************)
NormalizeOpp(opp, clk) ==
  [ id          |-> Or(opp.id, opp.title),
    title       |-> opp.title,
    category    |-> opp.category,
    geography   |-> IF opp.state = Txt.Nationwide THEN "national" ELSE "state",
    description |-> opp.description,
    deadline    |-> opp.deadline,
    daysLeft    |-> IF opp.urgencyDays # 0 THEN opp.urgencyDays
                    ELSE calculateDaysLeft(opp.deadline, clk.nowH, clk.tz),
    state       |-> opp.state,
    difficulty  |-> Or(opp.difficulty, Txt.Medium),
    featured    |-> opp.featured,
    urgencyDays |-> opp.urgencyDays ]

MapOpportunities(data, clk) ==
  [i \in DOMAIN data |-> NormalizeOpp(data[i], clk)]

(***************************************************************************)
(* renderOpportunities                                                     *)
(***************************************************************************)
\* a state filter that lost the look-up of the full name
MatchesState_CodeOnly(opp, sel) ==
  IF sel = <<>> THEN TRUE
  ELSE IF sel = Txt.Nationwide THEN opp.state = Txt.Nationwide
  ELSE opp.state = Txt.Nationwide \/ opp.state = sel

\* a state filter that takes 'Nationwide' for the empty selection
MatchesState_NationwideAll(opp, sel) ==
  IF sel = <<>> \/ sel = Txt.Nationwide THEN TRUE
  ELSE \/ opp.state = Txt.Nationwide
       \/ opp.state = sel
       \/ opp.state = stateMapping(sel)

MatchesState(opp, sel) ==
  IF sel = <<>> THEN TRUE
  ELSE IF sel = Txt.Nationwide THEN opp.state = Txt.Nationwide
  ELSE \/ opp.state = Txt.Nationwide
       \/ opp.state = sel
       \/ opp.state = stateMapping(sel)

MatchesCategory(opp, cat, sv) ==
  \/ cat = Txt.all
  \/ (cat = Txt.saved /\ ArrayIncludes(sv.items, opp.id))
  \/ (cat = Txt.ending /\ opp.daysLeft < 30 /\ opp.daysLeft > 0)
  \/ (cat = Txt.national /\ opp.geography = "national")
  \/ opp.category = cat

MatchesSearch(opp, srch) ==
  \/ includes(toLowerCase(opp.title), toLowerCase(srch))
  \/ includes(toLowerCase(Or(opp.description, <<>>)), toLowerCase(srch))

\* the filter callback throws a TypeError: title.toLowerCase() of a record
\* without title, or savedOpportunities.includes when the parsed store was
\* not an array and 'saved' is the category
FilterThrows(opps, cat, sv) ==
  /\ opps # <<>>
  /\ \/ (cat = Txt.saved /\ sv.kind # "array")
     \/ \E i \in DOMAIN opps : opps[i].title = undefined

\* a.daysLeft || 999
SortDays(opp) == IF opp.daysLeft = 0 THEN 999 ELSE opp.daysLeft

\* a comparator without the two featured tests
CardBefore_DaysOnly(a, b) == SortDays(a) - SortDays(b) < 0

\* the sort comparator returns a negative number for (a, b)
CardBefore(a, b) ==
  IF a.featured /\ ~b.featured THEN TRUE
  ELSE IF ~a.featured /\ b.featured THEN FALSE
  ELSE SortDays(a) - SortDays(b) < 0

\* a render that sorts `opportunities` itself
DatasetAfterRender_SortedInPlace(opps) ==
  SortBy(opps, [i \in DOMAIN opps |->
                  [j \in DOMAIN opps |-> CardBefore(opps[i], opps[j])]])

\* the dataset once renderOpportunities returned: filter built a new array
\* and sort ordered that one
DatasetAfterRender(opps) == opps

renderOpportunities(opps, cat, srch, sel, sv) ==
  IF FilterThrows(opps, cat, sv)
  THEN [threw |-> TRUE, cards |-> <<>>, noResults |-> "hidden",
        opportunities |-> opps]
  ELSE
  LET filtered == SelectSeq(opps, LAMBDA opp :
                     /\ MatchesState(opp, sel)
                     /\ MatchesCategory(opp, cat, sv)
                     /\ MatchesSearch(opp, srch))
      sorted   == SortBy(filtered, [i \in DOMAIN filtered |->
                    [j \in DOMAIN filtered |->
                       CardBefore(filtered[i], filtered[j])]])
  IN [threw |-> FALSE,
      cards |-> sorted,
      noResults |-> IF sorted # <<>> THEN "hidden"
                    ELSE IF cat = Txt.saved THEN "saved" ELSE "search",
      opportunities |-> DatasetAfterRender(opps)]

\* the page after a call of renderOpportunities that gave r
Shown(r) ==
  /\ opportunities' = r.opportunities
  /\ grid' = IF r.threw THEN grid ELSE [error |-> FALSE, cards |-> r.cards]
  /\ noResults' = IF r.threw THEN noResults ELSE r.noResults
  /\ fresh' = ~r.threw

(***************************************************************************)
(* The list page: script start and the dataset load                        *)
(***************************************************************************)
PageInit ==
  /\ pc = "start"
  /\ \E env \in Environments :
       /\ clock = env.clock
       /\ serverData = env.data
       /\ stored = env.stored
  /\ savedOpportunities = [kind |-> "uninit", items |-> <<>>]
  /\ opportunities = <<>>
  /\ currentCategory = Txt.all
  /\ currentSearch = <<>>
  /\ selectedState = <<>>
  /\ pending = 0
  /\ grid = [error |-> FALSE, cards |-> <<>>]
  /\ noResults = "hidden"
  /\ fresh = FALSE
  /\ tog = [phase |-> "idle", id |-> <<>>, saved0 |-> <<>>]

\* the script body: JSON.parse of the store (a SyntaxError ends the script),
\* the first loadOpportunities() call, then initApp() with the second one.
\* index.html loads the script with `defer`, so document.readyState is
\* 'interactive' when it runs and initApp is called at once.
ScriptRun ==
  /\ pc = "start"
  /\ UNCHANGED notPage
  /\ LET p == JSONparse(Or(stored, <<"[", "]">>)) IN
     IF p.threw
     THEN /\ pc' = "crashed"
          /\ UNCHANGED <<savedOpportunities, pending>>
     ELSE /\ pc' = "ready"
          /\ savedOpportunities' = [kind |-> p.kind, items |-> p.items]
          /\ pending' = 2
  /\ UNCHANGED <<clock, serverData, stored, opportunities, currentCategory,
                 currentSearch, selectedState, grid, noResults, fresh, tog>>

\* the grid after the catch block of loadOpportunities
LoadError ==
  /\ grid' = [error |-> TRUE, cards |-> <<>>]
  /\ fresh' = FALSE
  /\ UNCHANGED noResults

\* one loadOpportunities call runs on from its fetch: the response is read,
\* mapped and rendered, or the catch block shows the error text
LoadComplete(ok) ==
  /\ pc = "ready"
  /\ UNCHANGED notPage
  /\ pending > 0
  /\ pending' = pending - 1
  /\ IF ~ok
     THEN LoadError /\ UNCHANGED opportunities
     ELSE LET mapped == MapOpportunities(serverData, clock)
              r == renderOpportunities(mapped, currentCategory, currentSearch,
                                       selectedState, savedOpportunities)
          IN IF r.threw
             THEN LoadError /\ opportunities' = mapped
             ELSE Shown(r)
  /\ UNCHANGED <<pc, clock, serverData, stored, savedOpportunities,
                 currentCategory, currentSearch, selectedState,
                 tog>>

(***************************************************************************)
(* The list page: the handlers                                             *)
(***************************************************************************)
\* a toggleSaved whose removal branch is lost: the id is pushed again
ToggleList_AlwaysPush(arr, oppId) == Append(arr, oppId)

\* the list toggleSaved(oppId) leaves in savedOpportunities
ToggleList(arr, oppId) ==
  IF ArrayIncludes(arr, oppId) THEN ArrayWithout(arr, oppId)
  ELSE Append(arr, oppId)

\* a toggleSaved that persists the list without its last entry
PersistedText_DropLast(arr) ==
  JSONstringify(SubSeq(arr, 1, IF arr = <<>> THEN 0 ELSE Len(arr) - 1))

\* what toggleSaved writes with localStorage.setItem
PersistedText(arr) == JSONstringify(arr)

\* the record of the last toggles, after toggleSaved(oppId) ran on the
\* list `before`: "added" when it put an id that was not in the list,
\* "closed" when it is the next toggle after that and of the same id (saved0
\* is then the list from before the pair), "idle" else
TogAfter(t, before, oppId) ==
  IF t.phase = "added" /\ t.id = oppId
    THEN [phase |-> "closed", id |-> <<>>, saved0 |-> t.saved0]
  ELSE IF ~ArrayIncludes(before, oppId)
    THEN [phase |-> "added", id |-> oppId, saved0 |-> before]
  ELSE [phase |-> "idle", id |-> <<>>, saved0 |-> <<>>]

\* the save button of a card in the grid; a parsed store that is no array
\* makes savedOpportunities.includes throw before anything changes
toggleSaved(oppId) ==
  /\ pc = "ready"
  /\ UNCHANGED notPage
  /\ ~grid.error
  /\ \E i \in DOMAIN grid.cards : grid.cards[i].id = oppId
  /\ IF savedOpportunities.kind # "array"
     THEN UNCHANGED <<savedOpportunities, stored, opportunities, grid,
                      noResults, fresh, tog>>
     ELSE LET items == ToggleList(savedOpportunities.items, oppId)
              sv    == [kind |-> "array", items |-> items]
          IN /\ savedOpportunities' = sv
             /\ stored' = PersistedText(items)
             /\ tog' = TogAfter(tog, savedOpportunities.items, oppId)
             /\ Shown(renderOpportunities(opportunities, currentCategory,
                                          currentSearch, selectedState, sv))
  /\ UNCHANGED <<pc, clock, serverData, currentCategory, currentSearch,
                 selectedState, pending>>

filterCategory(category) ==
  /\ pc = "ready"
  /\ UNCHANGED notPage
  /\ currentCategory' = IF currentCategory = category /\ category # Txt.all
                        THEN Txt.all ELSE category
  /\ Shown(renderOpportunities(opportunities, currentCategory',
                               currentSearch, selectedState,
                               savedOpportunities))
  /\ UNCHANGED <<pc, clock, serverData, stored, savedOpportunities,
                 currentSearch, selectedState, pending, tog>>

\* a search that leaves the category as it is
filterOpportunities_KeepCategory(value) ==
  /\ pc = "ready"
  /\ UNCHANGED notPage
  /\ currentSearch' = value
  /\ currentCategory' = currentCategory
  /\ Shown(renderOpportunities(opportunities, currentCategory',
                               currentSearch', selectedState,
                               savedOpportunities))
  /\ UNCHANGED <<pc, clock, serverData, stored, savedOpportunities,
                 selectedState, pending, tog>>

\* the search box: filterOpportunities() with `value` typed
filterOpportunities(value) ==
  /\ pc = "ready"
  /\ UNCHANGED notPage
  /\ currentSearch' = value
  /\ currentCategory' = IF trim(value) # <<>> THEN Txt.all ELSE currentCategory
  /\ Shown(renderOpportunities(opportunities, currentCategory',
                               currentSearch', selectedState,
                               savedOpportunities))
  /\ UNCHANGED <<pc, clock, serverData, stored, savedOpportunities,
                 selectedState, pending, tog>>

\* the state selector changes to `value`: both registered change listeners
\* call renderOpportunities()
StateChange(value) ==
  /\ pc = "ready"
  /\ UNCHANGED notPage
  /\ value # selectedState
  /\ selectedState' = value
  /\ LET r1 == renderOpportunities(opportunities, currentCategory,
                                   currentSearch, value, savedOpportunities)
     IN Shown(renderOpportunities(r1.opportunities, currentCategory,
                                  currentSearch, value, savedOpportunities))
  /\ UNCHANGED <<pc, clock, serverData, stored, savedOpportunities,
                 currentCategory, currentSearch, pending, tog>>

\* mobileNavHome: filterCategory('all'), then the search box and the state
\* selector are cleared and filterOpportunities() runs; a throw of the first
\* render ends the handler there
mobileNavHome ==
  /\ pc = "ready"
  /\ UNCHANGED notPage
  /\ currentCategory' = Txt.all
  /\ LET r1 == renderOpportunities(opportunities, Txt.all, currentSearch,
                                   selectedState, savedOpportunities)
     IN IF r1.threw
        THEN Shown(r1) /\ UNCHANGED <<currentSearch, selectedState>>
        ELSE /\ currentSearch' = <<>>
             /\ selectedState' = <<>>
             /\ Shown(renderOpportunities(r1.opportunities, Txt.all, <<>>, <<>>,
                                          savedOpportunities))
  /\ UNCHANGED <<pc, clock, serverData, stored, savedOpportunities, pending, tog>>

mobileNavSaved ==
  /\ pc = "ready"
  /\ UNCHANGED notPage
  /\ currentCategory' = IF currentCategory = Txt.saved THEN Txt.all ELSE Txt.saved
  /\ Shown(renderOpportunities(opportunities, currentCategory',
                               currentSearch, selectedState,
                               savedOpportunities))
  /\ UNCHANGED <<pc, clock, serverData, stored, savedOpportunities,
                 currentSearch, selectedState, pending, tog>>

PageNext ==
  \/ ScriptRun
  \/ \E ok \in BOOLEAN : LoadComplete(ok)
  \/ \E c \in Range(grid.cards) : toggleSaved(c.id)
  \/ \E c \in Inputs.category : filterCategory(c)
  \/ \E v \in Inputs.search : filterOpportunities(v)
  \/ \E v \in Inputs.state : StateChange(v)
  \/ mobileNavHome
  \/ mobileNavSaved

(***************************************************************************)
(* The ingestion script (scripts/issue_to_json.js)                         *)
(***************************************************************************)

\* safeStr of a value that is a string or missing
safeStr(v) == IF v \in {null, undefined} THEN <<>> ELSE trim(v)

toISODateOrEmpty(s) ==
  LET v == safeStr(s) IN IF LooksISO(v) THEN v ELSE <<>>

\* isExpired, run on the UTC date `today`
isExpired(deadlineISO, today) ==
  /\ deadlineISO # <<>>
  /\ StrLess(deadlineISO, ISODate(today))

\* makeId: the hash is taken of `${url}|${title}|${deadline}`; the model
\* keeps that text in place of the 12 hex digits of its SHA-1
makeId(url, title, deadline) ==
  safeStr(url) \o <<"|">> \o safeStr(title) \o <<"|">> \o safeStr(deadline)

\* the fields parseField finds in the issue body
IssueForms ==
  [ title        : {<<>>, Txt.GrantX},
    category     : {<<>>, Txt.Grants},
    state        : {<<>>},
    deadline     : {<<>>, ISODate(Today - 1), ISODate(Today + 1),
                    Txt.slashdate},
    official_url : {<<>>, Txt.u2},
    apply_url    : {<<>>, Txt.u1},
    description  : {<<>>, Txt.taxes},
    featured     : {FALSE} ]

FormUrl(form) ==
  IF safeStr(form.apply_url) # <<>> THEN safeStr(form.apply_url)
  ELSE safeStr(form.official_url)

\* a test of the title alone
MissingRequired_TitleOnly(form) == form.title = <<>>

\* main throws "Missing required fields"
MissingRequired(form) ==
  form.title = <<>> \/ FormUrl(form) = <<>> \/ form.description = <<>>

NewItem(form) ==
  LET deadline == toISODateOrEmpty(form.deadline) IN
  [ id          |-> makeId(FormUrl(form), form.title, deadline),
    title       |-> form.title,
    category    |-> IF form.category = <<>> THEN Txt.Other ELSE form.category,
    deadline    |-> deadline,
    difficulty  |-> Txt.Medium,
    description |-> form.description,
    url         |-> FormUrl(form),
    state       |-> IF form.state = <<>> THEN Txt.Nationwide ELSE form.state,
    featured    |-> form.featured ]

\* a key without the default for a blank deadline
DeadlineKey_NoDefault(x) == safeStr(x.deadline)

\* the sort key of line 114 and the comparator of line 116; the keys are
\* dates of one format, which localeCompare orders as < does
DeadlineKey(x) ==
  IF safeStr(x.deadline) = <<>> THEN Txt.blankdate ELSE safeStr(x.deadline)

DeadlineBefore(a, b) == StrLess(DeadlineKey(a), DeadlineKey(b))

\* a dedupe that compares ids only
AddNewItem_IdOnly(existing, item) ==
  IF \E i \in DOMAIN existing : safeStr(existing[i].id) = item.id
  THEN existing
  ELSE <<item>> \o existing

\* the new item goes in without a look at its deadline
AddNewItem(existing, item) ==
  IF \E i \in DOMAIN existing :
        \/ safeStr(existing[i].id) = item.id
        \/ safeStr(existing[i].url) = item.url
  THEN existing
  ELSE <<item>> \o existing

\* the array main writes for the file `file`, lines 100-117
Ingested(file, form, today) ==
  LET kept == SelectSeq(file, LAMBDA x : ~isExpired(safeStr(x.deadline), today))
      all  == AddNewItem(kept, NewItem(form))
  IN SortBy(all, [i \in DOMAIN all |->
                    [j \in DOMAIN all |-> DeadlineBefore(all[i], all[j])]])

\* a repository without data file, on the day Today, before any run
\* no run of the script yet
DraftIdle ==
  /\ runPc = "off"
  /\ exitCode = "none"
  /\ issue = FALSE
  /\ rawText = <<>>
  /\ ai = [kind |-> "none", article_markdown |-> undefined]
  /\ draft = <<>>

IngestIdle ==
  /\ dataFile = <<>>
  /\ utcToday = Today
  /\ wrote = FALSE
  /\ newItem = <<>>
  /\ DraftIdle

\* the files a first run may find: none, or a file with one record that was
\* ingested from the apply URL u1 and whose url a maintainer has since
\* rewritten by hand to the official URL, with a blank before it
IngestStart ==
  /\ LET form == [title |-> Txt.GrantX, category |-> <<>>, state |-> <<>>,
                  deadline |-> <<>>, official_url |-> <<>>,
                  apply_url |-> Txt.u1, description |-> Txt.taxes,
                  featured |-> FALSE]
     IN dataFile \in {<<>>, <<[NewItem(form) EXCEPT !.url = <<" ">> \o Txt.u2]>>}
  /\ utcToday = Today
  /\ wrote = FALSE
  /\ newItem = <<>>
  /\ DraftIdle

\* the issue has no title, no description, or neither of the two URLs
BlankFields(form) ==
  \/ form.title = <<>>
  \/ form.description = <<>>
  \/ (form.apply_url = <<>> /\ form.official_url = <<>>)

\* one run of the first copy of main on an issue: from its first line to
\* the write and the end of the script, or to the throw for a missing
\* field (or a missing body, which parses to no field at all), which ends
\* the process with a failure
IngestRun(form) ==
  /\ UNCHANGED notIngest
  /\ runPc = "off"
  /\ issue' = BlankFields(form)
  /\ UNCHANGED <<runPc, rawText, ai, draft>>
  /\ IF MissingRequired(form)
     THEN exitCode' = "failed" /\ UNCHANGED ingestVars
     ELSE /\ Len(Ingested(dataFile, form, utcToday)) <= MaxFile
          /\ dataFile' = Ingested(dataFile, form, utcToday)
          /\ wrote' = TRUE
          /\ newItem' = <<NewItem(form)>>
          /\ exitCode' = "ok"
          /\ UNCHANGED utcToday

\* a run of the second copy of main up to its write (lines 282-342), or to
\* the throw, which the catch of line 377 turns into process.exit(1); the
\* item it builds has the id, url and deadline of the first copy's and
\* some fields more that the script never reads.  It throws "Missing
\* required fields" (line 300) when the title, the official URL, the
\* description or the details URL is blank.
DraftRun(form) ==
  LET missingRequired == \/ form.title = <<>>
                         \/ form.official_url = <<>>
                         \/ form.description = <<>>
                         \/ FormUrl(form) = <<>>
  IN
  /\ UNCHANGED notIngest
  /\ runPc = "off"
  /\ issue' = BlankFields(form)
  /\ UNCHANGED <<rawText, ai, draft>>
  /\ IF missingRequired
     THEN exitCode' = "failed" /\ UNCHANGED <<ingestVars, runPc>>
     ELSE /\ Len(Ingested(dataFile, form, utcToday)) <= MaxFile
          /\ dataFile' = Ingested(dataFile, form, utcToday)
          /\ wrote' = TRUE
          /\ newItem' = <<NewItem(form)>>
          /\ UNCHANGED utcToday
          /\ runPc' = "fetch"
          /\ exitCode' = "running"

\* lines 345-352: fetchPageText returns the text of the page ("text"), or
\* throws: fetch rejects, the status is not 2xx, the page is not HTML, the
\* text has fewer than 800 characters; the catch block falls back to the
\* "Source text" field of the issue.  Lines 354 and 375-377: without
\* rawText the script ends.
FetchPage(outcome, source_text) ==
  /\ runPc = "fetch"
  /\ UNCHANGED <<notIngest, ingestVars, issue, ai, draft>>
  /\ rawText' = IF outcome = "text" THEN Txt.grantaid ELSE safeStr(source_text)
  /\ IF rawText' = <<>>
     THEN runPc' = "done" /\ exitCode' = "ok"
     ELSE runPc' = "summarize" /\ UNCHANGED exitCode

\* a script that writes whatever callOpenAI came back with
Summarize_WritesAlways(outcome) ==
  /\ runPc = "summarize"
  /\ UNCHANGED <<notIngest, ingestVars, issue, rawText>>
  /\ ai' = outcome
  /\ draft' = <<trim(Or(outcome.article_markdown, <<>>))>>
  /\ runPc' = "done"
  /\ exitCode' = "ok"

\* lines 355-374: callOpenAI returns null (no API key, empty output, no
\* braces in the output), throws (status not 2xx, a response that is not
\* JSON, an output JSON.parse rejects) or returns the parsed object, whose
\* article_markdown is absent, empty, a text, or a number (<<"<5>">>,
\* whose .replace throws); the draft is written from a text that is not
\* empty, and every throw is caught at line 372
Summarize(outcome) ==
  /\ runPc = "summarize"
  /\ UNCHANGED <<notIngest, ingestVars, issue, rawText>>
  /\ ai' = outcome
  /\ draft' = IF /\ outcome.kind = "parsed"
                 /\ ~Falsy(outcome.article_markdown)
                 /\ outcome.article_markdown # <<"<5>">>
               THEN <<trim(outcome.article_markdown)>>
               ELSE <<>>
  /\ runPc' = "done"
  /\ exitCode' = "ok"

\* the job of the workflow ends: the next issue starts a new process and
\* has a draft file of its own
JobEnds ==
  /\ runPc = "done"
  /\ runPc' = "off"
  /\ rawText' = <<>>
  /\ ai' = [kind |-> "none", article_markdown |-> undefined]
  /\ draft' = <<>>
  /\ UNCHANGED <<notIngest, ingestVars, issue, exitCode>>

\* midnight UTC passes between two runs
DayPasses ==
  /\ utcToday < Today + MaxDays
  /\ runPc = "off"
  /\ utcToday' = utcToday + 1
  /\ wrote' = FALSE
  /\ UNCHANGED <<dataFile, newItem, draftVars, notIngest>>

IngestNext ==
  \/ \E form \in IssueForms : IngestRun(form)
  \/ DayPasses

\* the runs of either copy of the script on one day
DraftNext ==
  \/ \E form \in IssueForms : IngestRun(form) \/ DraftRun(form)
  \/ \E outcome \in {"text", "rejects", "status", "not html", "short"},
        source_text \in {<<>>, <<" ">>, Txt.taxes} :
        FetchPage(outcome, source_text)
  \/ \E outcome \in
        [kind : {"no key", "status", "not json", "empty", "no braces",
                 "unparsable"},
         article_markdown : {undefined}] \cup
        [kind : {"parsed"},
         article_markdown : {undefined, <<>>, <<" ">>, Txt.GrantX, <<"<5>">>}] :
        Summarize(outcome)
  \/ JobEnds

\* the pages while nobody has opened them
PageIdle ==
  /\ pc = "off"
  /\ clock = NoonUTC
  /\ serverData = <<>>
  /\ stored = null
  /\ savedOpportunities = [kind |-> "uninit", items |-> <<>>]
  /\ opportunities = <<>>
  /\ currentCategory = Txt.all
  /\ currentSearch = <<>>
  /\ selectedState = <<>>
  /\ pending = 0
  /\ grid = [error |-> FALSE, cards |-> <<>>]
  /\ noResults = "hidden"
  /\ fresh = FALSE
  /\ tog = [phase |-> "idle", id |-> <<>>, saved0 |-> <<>>]

(***************************************************************************)
(* The CSV page (app.js): tables                                           *)
(***************************************************************************)

CATEGORY_PRIORITY ==
  << <<<<"U","n","c","l","a","i","m","e","d"," ","m","o","n","e","y"," ","&"," ","r","e","f","u","n","d","s">>, 1>>,
     <<<<"L","e","g","a","l"," ","s","e","t","t","l","e","m","e","n","t","s"," ","&"," ","e","n","f","o","r","c","e","m","e","n","t">>, 2>>,
     <<<<"T","a","x"," ","&"," ","p","r","o","p","e","r","t","y"," ","r","e","l","i","e","f">>, 3>>,
     <<<<"U","t","i","l","i","t","i","e","s"," ","&"," ","e","n","e","r","g","y">>, 4>>,
     <<<<"H","e","a","l","t","h"," ","&"," ","m","e","d","i","c","a","l"," ","d","e","b","t">>, 5>>,
     <<<<"V","e","t","e","r","a","n","s">>, 6>>,
     <<<<"T","r","i","b","a","l"," ","p","r","o","g","r","a","m","s">>, 7>>,
     <<<<"E","d","u","c","a","t","i","o","n"," ","&"," ","s","t","u","d","e","n","t"," ","h","e","l","p">>, 8>>,
     <<<<"A","g","r","i","c","u","l","t","u","r","e"," ","&"," ","r","u","r","a","l">>, 9>>,
     <<<<"B","u","s","i","n","e","s","s"," ","&"," ","j","o","b","s">>, 10>>,
     <<<<"S","o","c","i","a","l"," ","s","e","r","v","i","c","e","s"," ","&"," ","s","a","f","e","t","y"," ","n","e","t">>, 11>>,
     <<<<"O","t","h","e","r">>, 12>> >>

\* CATEGORY_PRIORITY[cat] ?? 999
CategoryRank(cat) ==
  IF \E i \in DOMAIN CATEGORY_PRIORITY : CATEGORY_PRIORITY[i][1] = cat
  THEN CATEGORY_PRIORITY[CHOOSE i \in DOMAIN CATEGORY_PRIORITY :
                            CATEGORY_PRIORITY[i][1] = cat][2]
  ELSE 999

\* priorityOrder[pr] ?? 99
priorityOrder(pr) ==
  IF pr = Txt.high THEN 0 ELSE IF pr = Txt.medium THEN 1
  ELSE IF pr = Txt.low THEN 2 ELSE 99

\* speedOrder[sp] ?? 99
speedOrder(sp) ==
  IF sp = Txt.Fast THEN 0 ELSE IF sp = Txt.Medium THEN 1
  ELSE IF sp = Txt.Slow THEN 2 ELSE 99

MONEY_FIRST_CATEGORIES == {CATEGORY_PRIORITY[i][1] : i \in 1..10}

ASSISTANCE_CATEGORIES == {CATEGORY_PRIORITY[11][1], CATEGORY_PRIORITY[12][1]}

(***************************************************************************)
(* The CSV page: the rows it is served and the values of its controls      *)
(***************************************************************************)
MaxRows == 2

\* the delay of the debounce, 250 ms, in eighths of a second
DebounceTicks == 2
\* key strokes counted in one burst
MaxKeys == 2

\* rows as Papa.parse gives them with header: true; a column the file does
\* not have is undefined; the cells of a CSV file may end in a blank
CsvRows ==
  { [state |-> Txt.MT, category |-> Txt.Veterans, money_speed |-> Txt.Fast,
     difficulty |-> Txt.Easy, proof_simple |-> Txt.ID, title |-> Txt.GrantX,
     description_short |-> Txt.grantaid, company_or_agency |-> undefined,
     priority_for_user |-> Txt.High, date_found |-> Txt.day1,
     status |-> undefined],
    [state |-> Txt.MT, category |-> Txt.Other, money_speed |-> Txt.Slow,
     difficulty |-> <<>>, proof_simple |-> <<>>, title |-> Txt.RefundY,
     description_short |-> Txt.taxes, company_or_agency |-> <<>>,
     priority_for_user |-> Txt.low, date_found |-> Txt.day2,
     status |-> Txt.closed],
    [state |-> Txt.CAspace, category |-> Txt.Veterans, money_speed |-> Txt.Fast,
     difficulty |-> Txt.Easy, proof_simple |-> <<>>, title |-> Txt.RefundY,
     description_short |-> <<>>, company_or_agency |-> Txt.GrantX,
     priority_for_user |-> Txt.High, date_found |-> Txt.day2,
     status |-> Txt.open],
    [state |-> Txt.MT, category |-> Txt.Veterans \o <<" ">>,
     money_speed |-> Txt.Fast, difficulty |-> Txt.Easy,
     proof_simple |-> Txt.ID, title |-> Txt.GrantX,
     description_short |-> Txt.grantaid, company_or_agency |-> undefined,
     priority_for_user |-> Txt.High, date_found |-> Txt.day2,
     status |-> undefined] }

CsvFiles ==
  {d \in SeqsUpTo(CsvRows, MaxRows) :
      \A i, j \in DOMAIN d : d[i] = d[j] => i = j}

(***************************************************************************)
(* The CSV page: applyFilters and the renderers                            *)
(***************************************************************************)
\* the haystack of the search
Haystack(row) ==
  Or(row.title, <<>>) \o <<" ">> \o Or(row.description_short, <<>>)
    \o <<" ">> \o Or(row.company_or_agency, <<>>)

\* the callback of ALL_ROWS.filter
RowPasses(row, cstate, ccat, search, speed, difficulty, proof) ==
  LET searchValue == toLowerCase(trim(search)) IN
  /\ ~(cstate # <<>> /\ trim(Or(row.state, <<>>)) # cstate)
  /\ ~(ccat # <<>> /\ ccat # Txt.All /\ trim(Or(row.category, <<>>)) # ccat)
  /\ ~(speed # <<>> /\ trim(Or(row.money_speed, <<>>)) # speed)
  /\ ~(difficulty # <<>> /\ trim(Or(row.difficulty, <<>>)) # difficulty)
  /\ ~(proof # <<>> /\ trim(Or(row.proof_simple, <<>>)) # proof)
  /\ ~(searchValue # <<>>
        /\ ~includes(toLowerCase(Haystack(row)), searchValue))

\* the comparator of rows.sort returns a negative number for (a, b)
RowBefore(a, b) ==
  LET catRankA == CategoryRank(Or(a.category, <<>>))
      catRankB == CategoryRank(Or(b.category, <<>>))
      prScoreA == priorityOrder(toLowerCase(Or(a.priority_for_user, <<>>)))
      prScoreB == priorityOrder(toLowerCase(Or(b.priority_for_user, <<>>)))
      spScoreA == speedOrder(Or(a.money_speed, <<>>))
      spScoreB == speedOrder(Or(b.money_speed, <<>>))
      dA == Or(a.date_found, <<>>)
      dB == Or(b.date_found, <<>>)
  IN IF catRankA # catRankB THEN catRankA < catRankB
     ELSE IF prScoreA # prScoreB THEN prScoreA < prScoreB
     ELSE IF spScoreA # spScoreB THEN spScoreA < spScoreB
     ELSE StrLess(dB, dA)

\* ALL_ROWS once applyFilters returned: filter built the array that sort
\* then ordered
RowsAfterFilters(rows) == rows

applyFilters(rows, cstate, ccat, search, speed, difficulty, proof) ==
  LET kept == SelectSeq(rows, LAMBDA row :
                 RowPasses(row, cstate, ccat, search, speed, difficulty,
                           proof))
  IN [rows |-> SortBy(kept, [i \in DOMAIN kept |->
                        [j \in DOMAIN kept |-> RowBefore(kept[i], kept[j])]]),
      ALL_ROWS |-> RowsAfterFilters(rows)]

\* the rows renderSpotlight makes cards of
Spotlight(rows) ==
  LET spotlight == SelectSeq(rows, LAMBDA row :
        LET pr     == toLowerCase(Or(row.priority_for_user, <<>>))
            speed  == Or(row.money_speed, <<>>)
            status == toLowerCase(Or(row.status, <<>>))
        IN /\ Or(row.category, <<>>) \in MONEY_FIRST_CATEGORIES
           /\ (status = <<>> \/ status = Txt.open)
           /\ (pr = Txt.high \/ pr = Txt.medium)
           /\ (speed = Txt.Fast \/ speed = Txt.Medium))
  IN SubSeq(spotlight, 1, IF Len(spotlight) < 8 THEN Len(spotlight) ELSE 8)

\* the page after renderAll on the filtered rows; `empty` is the
\* "No results match your filters yet" text of renderGroupedResults
Rendered(rows) ==
  [spotlight |-> Spotlight(rows),
   money  |-> SelectSeq(rows, LAMBDA row :
                 Or(row.category, <<>>) \notin ASSISTANCE_CATEGORIES),
   assist |-> SelectSeq(rows, LAMBDA row :
                 Or(row.category, <<>>) \in ASSISTANCE_CATEGORIES),
   empty  |-> rows = <<>>]

\* renderAll with the values the globals and the controls will have
renderAll ==
  LET f == applyFilters(ALL_ROWS, CURRENT_STATE', CURRENT_CATEGORY',
                        searchInput', speedSelect', difficultySelect',
                        proofSelect')
  IN /\ csvView' = Rendered(f.rows)
     /\ ALL_ROWS' = f.ALL_ROWS

(***************************************************************************)
(* The CSV page: the handlers                                              *)
(***************************************************************************)
\* the distinct non-empty trimmed values of a column, in order of first
\* occurrence (Array.from(new Set(...)))
Distinct(vals) ==
  LET F[i \in 0..Len(vals)] ==
        IF i = 0 THEN <<>>
        ELSE IF vals[i] = <<>> \/ ArrayIncludes(F[i - 1], vals[i])
             THEN F[i - 1] ELSE Append(F[i - 1], vals[i])
  IN F[Len(vals)]

\* initStateSelector: the options, and the state it selects
StatesOf(rows) ==
  LET states == Distinct([i \in DOMAIN rows |->
                            trim(Or(rows[i].state, <<>>))])
  IN SortBy(states, [i \in DOMAIN states |->
                       [j \in DOMAIN states |-> StrLess(states[i], states[j])]])

InitialState(states, current) ==
  IF ArrayIncludes(states, Txt.MT) THEN Txt.MT
  ELSE IF states # <<>> THEN states[1] ELSE current

\* initCategoryChips: "All", then the categories by rank
ChipsOf(rows) ==
  LET cats == Distinct([i \in DOMAIN rows |->
                          trim(Or(rows[i].category, <<>>))])
  IN <<Txt.All>> \o
     SortBy(cats, [i \in DOMAIN cats |->
                     [j \in DOMAIN cats |->
                        CategoryRank(cats[i]) < CategoryRank(cats[j])]])

CsvInit ==
  /\ csvPc = "start"
  /\ csvFile \in CsvFiles
  /\ ALL_ROWS = <<>>
  /\ CURRENT_STATE = Txt.MT
  /\ CURRENT_CATEGORY = Txt.All
  /\ searchInput = <<>>
  /\ speedSelect = <<>>
  /\ difficultySelect = <<>>
  /\ proofSelect = <<>>
  /\ stateOptions = <<>>
  /\ chips = <<>>
  /\ timer = 0
  /\ burst = [quiet |-> DebounceTicks, keys |-> 0, owed |-> 0]
  /\ csvView = [spotlight |-> <<>>, money |-> <<>>, assist |-> <<>>,
                empty |-> FALSE]

\* the page while nobody has opened it
CsvIdle ==
  /\ csvPc = "off"
  /\ csvFile = <<>>
  /\ ALL_ROWS = <<>>
  /\ CURRENT_STATE = Txt.MT
  /\ CURRENT_CATEGORY = Txt.All
  /\ searchInput = <<>>
  /\ speedSelect = <<>>
  /\ difficultySelect = <<>>
  /\ proofSelect = <<>>
  /\ stateOptions = <<>>
  /\ chips = <<>>
  /\ timer = 0
  /\ burst = [quiet |-> DebounceTicks, keys |-> 0, owed |-> 0]
  /\ csvView = [spotlight |-> <<>>, money |-> <<>>, assist |-> <<>>,
                empty |-> FALSE]

\* the DOMContentLoaded listener: loadData() starts the download and
\* setupFilterListeners() registers the listeners
CsvDOMContentLoaded ==
  /\ csvPc = "start"
  /\ csvPc' = "loading"
  /\ UNCHANGED <<csvFile, ALL_ROWS, CURRENT_STATE, CURRENT_CATEGORY,
                 searchInput, speedSelect, difficultySelect, proofSelect,
                 stateOptions, chips, timer, burst, csvView, notCsv>>

\* Papa.parse ends: the `complete` callback, or the `error` one
loadData(ok) ==
  /\ csvPc = "loading"
  /\ csvPc' = IF ok THEN "ready" ELSE "failed"
  /\ IF ok
     THEN /\ stateOptions' = StatesOf(csvFile)
          /\ CURRENT_STATE' = InitialState(StatesOf(csvFile), CURRENT_STATE)
          /\ chips' = ChipsOf(csvFile)
          /\ LET f == applyFilters(csvFile, CURRENT_STATE', CURRENT_CATEGORY,
                                   searchInput, speedSelect, difficultySelect,
                                   proofSelect)
             IN /\ csvView' = Rendered(f.rows)
                /\ ALL_ROWS' = f.ALL_ROWS
     ELSE UNCHANGED <<ALL_ROWS, CURRENT_STATE, stateOptions, chips, csvView>>
  /\ UNCHANGED <<csvFile, CURRENT_CATEGORY, searchInput, speedSelect,
                 difficultySelect, proofSelect, timer, burst,
                 notCsv>>

CsvListening == csvPc \in {"loading", "ready", "failed"}

\* a debounce that leaves a running timeout alone (no clearTimeout, no new
\* timeout while one is set)
TimerAfterInput_KeepFirst(t) == IF t > 0 THEN t ELSE DebounceTicks

\* debounce: clearTimeout(t), then setTimeout(..., delay)
TimerAfterInput(t) == DebounceTicks

\* a key stroke in the search box: the debounced listener restarts its
\* timeout. burst.quiet is the time since the last key stroke (capped at the
\* delay), burst.keys the key strokes of the burst (a key stroke that comes
\* a full delay after the one before starts a burst), burst.owed the bursts
\* the listener has not yet run for
SearchTyped(value) ==
  /\ CsvListening
  /\ value # searchInput
  /\ searchInput' = value
  /\ timer' = TimerAfterInput(timer)
  /\ burst' = IF burst.quiet = DebounceTicks
              THEN [quiet |-> 0, keys |-> 1, owed |-> burst.owed + 1]
              ELSE [quiet |-> 0,
                    keys  |-> IF burst.keys < MaxKeys THEN burst.keys + 1
                              ELSE MaxKeys,
                    owed  |-> burst.owed]
  /\ UNCHANGED <<csvPc, csvFile, ALL_ROWS, CURRENT_STATE, CURRENT_CATEGORY,
                 speedSelect, difficultySelect, proofSelect, stateOptions,
                 chips, csvView, notCsv>>

\* an eighth of a second passes in which no timeout fires
CsvTick ==
  /\ CsvListening
  /\ timer # 1
  /\ burst.quiet < DebounceTicks
  /\ timer' = IF timer > 1 THEN timer - 1 ELSE timer
  /\ burst' = [burst EXCEPT !.quiet = @ + 1]
  /\ UNCHANGED <<csvPc, csvFile, ALL_ROWS, CURRENT_STATE, CURRENT_CATEGORY,
                 searchInput, speedSelect, difficultySelect, proofSelect,
                 stateOptions, chips, csvView, notCsv>>

\* the last eighth of the delay passes and the timeout fires: the listener
\* of the search box runs
SearchDebounced ==
  /\ CsvListening
  /\ timer = 1
  /\ timer' = 0
  /\ burst' = [burst EXCEPT
                 !.quiet = IF @ < DebounceTicks THEN @ + 1 ELSE @,
                 !.owed  = IF @ > 0 THEN @ - 1 ELSE 0]
  /\ CURRENT_CATEGORY' = IF trim(searchInput) # <<>> THEN Txt.All
                         ELSE CURRENT_CATEGORY
  /\ UNCHANGED <<CURRENT_STATE, searchInput, speedSelect, difficultySelect,
                 proofSelect>>
  /\ renderAll
  /\ UNCHANGED <<csvPc, csvFile, stateOptions, chips, notCsv>>

SpeedChange(value) ==
  /\ CsvListening
  /\ value # speedSelect
  /\ speedSelect' = value
  /\ UNCHANGED <<CURRENT_STATE, CURRENT_CATEGORY, searchInput,
                 difficultySelect, proofSelect>>
  /\ renderAll
  /\ UNCHANGED <<csvPc, csvFile, stateOptions, chips, timer, burst,
                 notCsv>>

DifficultyChange(value) ==
  /\ CsvListening
  /\ value # difficultySelect
  /\ difficultySelect' = value
  /\ UNCHANGED <<CURRENT_STATE, CURRENT_CATEGORY, searchInput, speedSelect,
                 proofSelect>>
  /\ renderAll
  /\ UNCHANGED <<csvPc, csvFile, stateOptions, chips, timer, burst,
                 notCsv>>

ProofChange(value) ==
  /\ CsvListening
  /\ value # proofSelect
  /\ proofSelect' = value
  /\ UNCHANGED <<CURRENT_STATE, CURRENT_CATEGORY, searchInput, speedSelect,
                 difficultySelect>>
  /\ renderAll
  /\ UNCHANGED <<csvPc, csvFile, stateOptions, chips, timer, burst,
                 notCsv>>

\* another option of the state selector is chosen
CsvStateChange(value) ==
  /\ CsvListening
  /\ ArrayIncludes(stateOptions, value)
  /\ value # CURRENT_STATE
  /\ CURRENT_STATE' = value
  /\ UNCHANGED <<CURRENT_CATEGORY, searchInput, speedSelect,
                 difficultySelect, proofSelect>>
  /\ renderAll
  /\ UNCHANGED <<csvPc, csvFile, stateOptions, chips, timer, burst,
                 notCsv>>

\* the clear button: resetFilters(), then renderAll()
ClearFilters ==
  /\ CsvListening
  /\ searchInput' = <<>>
  /\ speedSelect' = <<>>
  /\ difficultySelect' = <<>>
  /\ proofSelect' = <<>>
  /\ CURRENT_CATEGORY' = Txt.All
  /\ UNCHANGED CURRENT_STATE
  /\ renderAll
  /\ UNCHANGED <<csvPc, csvFile, stateOptions, chips, timer, burst,
                 notCsv>>

\* a click on the chip `label`
ChipClick(label) ==
  /\ CsvListening
  /\ ArrayIncludes(chips, label)
  /\ CURRENT_CATEGORY' = label
  /\ UNCHANGED <<CURRENT_STATE, searchInput, speedSelect, difficultySelect,
                 proofSelect>>
  /\ renderAll
  /\ UNCHANGED <<csvPc, csvFile, stateOptions, chips, timer, burst,
                 notCsv>>

CsvNext ==
  \/ CsvDOMContentLoaded
  \/ \E ok \in BOOLEAN : loadData(ok)
  \/ \E v \in Inputs.csvSearch : SearchTyped(v)
  \/ CsvTick
  \/ SearchDebounced
  \/ \E v \in Inputs.speed : SpeedChange(v)
  \/ \E v \in Inputs.difficulty : DifficultyChange(v)
  \/ \E v \in Inputs.proof : ProofChange(v)
  \/ \E v \in Range(stateOptions) : CsvStateChange(v)
  \/ ClearFilters
  \/ \E label \in Range(chips) : ChipClick(label)

(***************************************************************************)
(* The static page (src/assets/app.js)                                     *)
(***************************************************************************)
MaxCards == 2

\* the cards the site generator wrote into #opportunitiesGrid: innerText and
\* the text of the itemprop="address" element
StaticCards ==
  { [text |-> Txt.GrantX \o <<" ">> \o Txt.Nationwide, loc |-> Txt.Nationwide],
    [text |-> Txt.RefundY \o <<" ">> \o Txt.CA, loc |-> Txt.CA],
    [text |-> Txt.GrantX \o <<" ">> \o Txt.TX, loc |-> Txt.TXpadded] }

cardText(card) == toLowerCase(Or(card.text, <<>>))

cardState(card) == trim(Or(card.loc, <<>>))

\* the cards once applyFilters returned: it assigns style.display only
CardsAfterFilters(cards) == cards

\* applyFilters: for each card, whether style.display becomes ""
staticApplyFilters(cards, search, sel) ==
  LET q     == toLowerCase(trim(Or(search, <<>>)))
      state == trim(Or(sel, <<>>))
  IN [display |-> [i \in DOMAIN cards |->
          /\ (q = <<>> \/ includes(cardText(cards[i]), q))
          /\ \/ state = <<>>
             \/ state = Txt.All
             \/ state = Txt.AllStates
             \/ cardState(cards[i]) = Txt.Nationwide
             \/ cardState(cards[i]) = state],
      cards |-> CardsAfterFilters(cards)]

\* the page as served: every card shown, the listeners not yet registered
StaticInit ==
  /\ stPc = "start"
  /\ stCards \in SeqsUpTo(StaticCards, MaxCards)
  /\ stDisplay = [i \in DOMAIN stCards |-> TRUE]
  /\ stSearch = <<>>
  /\ stState = <<>>

\* the page while nobody has opened it
StaticIdle ==
  /\ stPc = "off"
  /\ stCards = <<>>
  /\ stDisplay = <<>>
  /\ stSearch = <<>>
  /\ stState = <<>>

StaticDOMContentLoaded ==
  /\ stPc = "start"
  /\ stPc' = "ready"
  /\ UNCHANGED <<stCards, stDisplay, stSearch, stState, notStatic>>

\* the page after applyFilters() with the values the controls will have
StaticFiltered ==
  LET r == staticApplyFilters(stCards, stSearch', stState')
  IN /\ stDisplay' = r.display
     /\ stCards' = r.cards

\* the input listener of the search box
StaticSearchTyped(value) ==
  /\ stPc = "ready"
  /\ value # stSearch
  /\ stSearch' = value
  /\ UNCHANGED stState
  /\ StaticFiltered
  /\ UNCHANGED <<stPc, notStatic>>

\* the change listener of the state selector
StaticStateChange(value) ==
  /\ stPc = "ready"
  /\ value # stState
  /\ stState' = value
  /\ UNCHANGED stSearch
  /\ StaticFiltered
  /\ UNCHANGED <<stPc, notStatic>>

\* window.toggleCategories ("Show All"): both controls are reset
toggleCategories ==
  /\ stPc \in {"start", "ready"}
  /\ stSearch' = <<>>
  /\ stState' = Txt.All
  /\ StaticFiltered
  /\ UNCHANGED <<stPc, notStatic>>

StaticNext ==
  \/ StaticDOMContentLoaded
  \/ \E v \in Inputs.staticSearch : StaticSearchTyped(v)
  \/ \E v \in Inputs.staticState : StaticStateChange(v)
  \/ toggleCategories

(***************************************************************************)
(* Calls of calculateDaysLeft and getUrgencyBadge                          *)
(***************************************************************************)
\* the deadlines calculateDaysLeft is called with: absent, blank, the
\* sentinel words in either case and inside a phrase, ISO dates around the
\* day of the call, an ISO text that is no date, M/D/Y texts with a date,
\* with a month and a day no calendar has, and with no numbers, and a word
DeadlineInputs ==
  { undefined, <<>>, <<" ">>,
    Txt.ongoing, Txt.none, <<"N", "/", "A">>, <<" ">> \o Txt.na,
    Txt.rollingbasis, <<"V", "a", "r", "i", "e", "s">>,
    Txt.tbd \o <<" ">> \o Txt.open,
    <<"2","0","2","6","-","0","2","-","3","0">>,
    Txt.slashdate,
    <<"1","3","/","4","5","/","2","0","2","6">>,
    <<"a","/","b","/","c">>,
    <<"0","/","5","/","2","0","2","6">>,
    Txt.open }
  \cup {ISODate(Today + k) : k \in -2..2}

\* the calls: calculateDaysLeft at the first, the middle and the last
\* hour of a UTC day, west of Greenwich, on it and east of it, and
\* getUrgencyBadge with the day counts around its tiers and sentinels
CallInputs ==
  LET CallClocks ==
        [nowH : {24 * Today, 24 * Today + 12, 24 * Today + 23},
         tz : {-5, 0, 9}]
      DayInputs == (-2..62) \cup {899, 900, 901, 999}
  IN
  [fn : {"calculateDaysLeft"}, deadlineStr : DeadlineInputs,
   clock : CallClocks]
  \cup [fn : {"getUrgencyBadge"}, urgencyDays : {0, 5}, daysLeft : DayInputs]

\* the badge getUrgencyBadge returns: "" for none, else the tier of its
\* markup (red with a flame, orange with a clock, yellow with a calendar)
getUrgencyBadge(urgencyDays, daysLeft) ==
  LET days == IF urgencyDays # 0 THEN urgencyDays ELSE daysLeft IN
  IF days = 0 \/ days < 0 \/ days > 900 THEN ""
  ELSE IF days <= 7 THEN "urgent"
  ELSE IF days <= 30 THEN "warning"
  ELSE IF days <= 60 THEN "notice"
  ELSE ""

CallsIdle ==
  /\ callPc = "off"
  /\ callIn = [fn |-> "none"]
  /\ callOut = <<>>

CallsInit ==
  /\ callPc = "called"
  /\ callIn \in CallInputs
  /\ callOut = <<>>

CallCalculateDaysLeft ==
  /\ callPc = "called"
  /\ callIn.fn = "calculateDaysLeft"
  /\ callPc' = "returned"
  /\ callOut' = calculateDaysLeft(callIn.deadlineStr, callIn.clock.nowH,
                                  callIn.clock.tz)
  /\ UNCHANGED <<callIn, notCalls>>

CallGetUrgencyBadge ==
  /\ callPc = "called"
  /\ callIn.fn = "getUrgencyBadge"
  /\ callPc' = "returned"
  /\ callOut' = getUrgencyBadge(callIn.urgencyDays, callIn.daysLeft)
  /\ UNCHANGED <<callIn, notCalls>>

CallsNext == CallCalculateDaysLeft \/ CallGetUrgencyBadge

(***************************************************************************)
(* The subscribe function (netlify/functions/buttondown-subscribe.js)      *)
(***************************************************************************)
\* calls of the function counted in one run
MaxCalls == 2

\* the literal texts of the function and of the events of the model
Wire ==
  [
    POST        |-> <<"P","O","S","T">>,
    GET         |-> <<"G","E","T">>,
    email       |-> <<"e","m","a","i","l">>,
    formType    |-> <<"a","p","p","l","i","c","a","t","i","o","n","/","x","-",
                     "w","w","w","-","f","o","r","m","-","u","r","l","e","n",
                     "c","o","d","e","d">>,
    formUtf8    |-> <<"a","p","p","l","i","c","a","t","i","o","n","/","x","-",
                     "w","w","w","-","f","o","r","m","-","u","r","l","e","n",
                     "c","o","d","e","d",";"," ","c","h","a","r","s","e","t",
                     "=","U","T","F","-","8">>,
    jsonType    |-> <<"a","p","p","l","i","c","a","t","i","o","n","/","j","s",
                     "o","n">>,
    emptyObject |-> <<"{","}">>,
    nullText    |-> <<"n","u","l","l">>,
    emailKey    |-> <<"{","\"","e","m","a","i","l","\"",":">>,
    formA       |-> <<"e","m","a","i","l","=","a","%","4","0","b">>,
    formPadded  |-> <<"e","m","a","i","l","=","+","a","%","4","0","b","+">>,
    formPlus    |-> <<"e","m","a","i","l","=","c","%","2","B","d","%","4","0",
                     "b">>,
    formSecond  |-> <<"x","=","1","&","e","m","a","i","l","=","a","%","4","0",
                     "b">>,
    formEmpty   |-> <<"e","m","a","i","l","=">>,
    formBlank   |-> <<"e","m","a","i","l","=","+">>,
    formOther   |-> <<"n","a","m","e","=","a">>,
    jsonA       |-> <<"{","\"","e","m","a","i","l","\"",":","\"","a","@","b",
                     "\"","}">>,
    jsonPadded  |-> <<"{","\"","e","m","a","i","l","\"",":","\""," ","a","@",
                     "b"," ","\"","}">>,
    jsonPlus    |-> <<"{","\"","e","m","a","i","l","\"",":","\"","c","+","d",
                     "@","b","\"","}">>,
    jsonEmpty   |-> <<"{","\"","e","m","a","i","l","\"",":","\"","\"","}">>,
    jsonNumber  |-> <<"{","\"","e","m","a","i","l","\"",":","5","}">>,
    a_b         |-> <<"a","@","b">>,
    cd_b        |-> <<"c","+","d","@","b">> ]

\* the percent codes of the characters of the model that the
\* application/x-www-form-urlencoded serializer escapes
PercentCodes ==
  ("@" :> <<"4","0">>) @@ ("+" :> <<"2","B">>) @@ ("&" :> <<"2","6">>) @@
  ("=" :> <<"3","D">>) @@ ("%" :> <<"2","5">>) @@ ("\"" :> <<"2","2">>) @@
  ("{" :> <<"7","B">>) @@ ("}" :> <<"7","D">>) @@ (":" :> <<"3","A">>)

\* percent-decoding after '+' has become a blank, as the urlencoded parser
\* of URLSearchParams does; a '%' that no code follows stays as it is
RECURSIVE FormDecode(_)
FormDecode(s) ==
  IF s = <<>> THEN <<>>
  ELSE IF s[1] = "+" THEN <<" ">> \o FormDecode(Tail(s))
  ELSE IF /\ s[1] = "%"
          /\ Len(s) >= 3
          /\ \E c \in DOMAIN PercentCodes : PercentCodes[c] = <<s[2], s[3]>>
    THEN <<CHOOSE c \in DOMAIN PercentCodes : PercentCodes[c] = <<s[2], s[3]>>>>
         \o FormDecode(SubSeq(s, 4, Len(s)))
  ELSE <<s[1]>> \o FormDecode(Tail(s))

\* new URLSearchParams(text).get(name): the text is cut at every '&', each
\* non-empty piece at its first '=', both halves are decoded, and the value
\* of the first piece of that name is returned, null when there is none
URLSearchParamsGet(text, name) ==
  LET cuts   == {0, Len(text) + 1} \cup {i \in DOMAIN text : text[i] = "&"}
      starts == {i \in cuts : i <= Len(text)}
      Piece(i) == SubSeq(text, i + 1,
                         (CHOOSE j \in cuts : j > i /\ \A k \in cuts :
                                                  k > i => j <= k) - 1)
      Eq(q)    == {k \in DOMAIN q : q[k] = "="}
      Cut(q)   == IF Eq(q) = {} THEN Len(q) + 1
                  ELSE CHOOSE k \in Eq(q) : \A m \in Eq(q) : k <= m
      NameOf(q)  == FormDecode(SubSeq(q, 1, Cut(q) - 1))
      ValueOf(q) == FormDecode(SubSeq(q, Cut(q) + 1, Len(q)))
      hits == {i \in starts : Piece(i) # <<>> /\ NameOf(Piece(i)) = name}
  IN IF hits = {} THEN null
     ELSE ValueOf(Piece(CHOOSE i \in hits : \A j \in hits : i <= j))

\* new URLSearchParams({ [name]: value }).toString(): letters, digits and
\* * - . _ stay, the blank becomes '+', every other character its code
URLSearchParamsToString(name, value) ==
  LET Enc(c) == IF c = " " THEN <<"+">>
                ELSE IF c \in DOMAIN PercentCodes
                  THEN <<"%">> \o PercentCodes[c]
                ELSE <<c>>
      F[i \in 0..Len(value)] ==
        IF i = 0 THEN <<>> ELSE F[i - 1] \o Enc(value[i])
      G[i \in 0..Len(name)] ==
        IF i = 0 THEN <<>> ELSE G[i - 1] \o Enc(name[i])
  IN G[Len(name)] \o <<"=">> \o F[Len(value)]

\* lines 7-18: the email of the event, [threw, email]; a missing headers
\* object, the text null, a number as email (it has no trim) and a body
\* that is not JSON throw inside the try block.  JSONparseEmail is
\* JSON.parse(text).email of the body texts of the model: the empty object
\* (email undefined), an object whose only member is "email" with a string
\* free of quotes and backslashes or with the number 5 (<<"<5>">>), the
\* text null (the property read throws a TypeError), and a text that is
\* not JSON (a SyntaxError).
EventEmail(event) ==
  LET JSONparseEmail(text) ==
        LET n    == Len(Wire.emailKey)
            rest == SubSeq(text, n + 1, Len(text)) IN
        IF text = Wire.emptyObject THEN [threw |-> FALSE, email |-> undefined]
        ELSE IF text = Wire.nullText THEN [threw |-> TRUE, email |-> undefined]
        ELSE IF Len(text) > n /\ SubSeq(text, 1, n) = Wire.emailKey
          THEN IF rest = <<"5", "}">>
                 THEN [threw |-> FALSE, email |-> <<"<5>">>]
               ELSE IF /\ Len(rest) >= 3
                       /\ rest[1] = "\""
                       /\ SubSeq(rest, Len(rest) - 1, Len(rest)) = <<"\"", "}">>
                       /\ \A i \in 2..(Len(rest) - 2) :
                             rest[i] \notin {"\"", "\\"}
                 THEN [threw |-> FALSE,
                       email |-> SubSeq(rest, 2, Len(rest) - 2)]
               ELSE [threw |-> TRUE, email |-> undefined]
        ELSE [threw |-> TRUE, email |-> undefined]
  IN
  IF ~event.headers.present THEN [threw |-> TRUE, email |-> <<>>]
  ELSE
  LET contentType == Or(event.headers.contentType, <<>>) IN
  IF includes(contentType, Wire.formType)
    THEN [threw |-> FALSE,
          email |-> trim(Or(URLSearchParamsGet(Or(event.body, <<>>), Wire.email),
                            <<>>))]
  ELSE
  LET body == JSONparseEmail(Or(event.body, Wire.emptyObject)) IN
  IF body.threw \/ body.email = <<"<5>">> THEN [threw |-> TRUE, email |-> <<>>]
  ELSE [threw |-> FALSE, email |-> trim(Or(body.email, <<>>))]

MissingEmail_Never(email) == FALSE

\* line 20: !email
MissingEmail(email) == email = <<>>

bdResOk_Only200(status) == status = 200

\* Response.ok: a status from 200 to 299
bdResOk(status) == status >= 200 /\ status <= 299

\* handler: [sent, response], the bodies of the requests made and the
\* object returned; ok is the member of the JSON body, "absent" when the
\* body is plain text.  Every statement after the method test is inside the
\* try block, whose catch returns the 500 response.
handler(event, up) ==
  IF event.httpMethod # Wire.POST
    THEN [sent |-> <<>>, response |-> [statusCode |-> 405, ok |-> "absent"]]
  ELSE
  LET e == EventEmail(event) IN
  IF e.threw
    THEN [sent |-> <<>>, response |-> [statusCode |-> 500, ok |-> "false"]]
  ELSE IF MissingEmail(e.email)
    THEN [sent |-> <<>>, response |-> [statusCode |-> 400, ok |-> "absent"]]
  ELSE
  LET request == URLSearchParamsToString(Wire.email, e.email) IN
  [sent     |-> <<request>>,
   response |-> IF up.kind = "rejects" \/ ~up.textOk
                  THEN [statusCode |-> 500, ok |-> "false"]
                ELSE IF bdResOk(up.status)
                  THEN [statusCode |-> 200, ok |-> "true"]
                ELSE [statusCode |-> 400, ok |-> "false"]]

SubIdle ==
  /\ subPc = "off"
  /\ subEvent = <<>>
  /\ subUpstream = [kind |-> "none"]
  /\ subSent = <<>>
  /\ subResponse = [statusCode |-> 0, ok |-> "absent"]
  /\ subReceived = <<>>

SubInit ==
  /\ subPc = "ready"
  /\ subEvent = <<>>
  /\ subUpstream = [kind |-> "none"]
  /\ subSent = <<>>
  /\ subResponse = [statusCode |-> 0, ok |-> "absent"]
  /\ subReceived = <<>>

\* one call of the function, with what the endpoint does if it is asked;
\* the endpoint receives the request unless fetch rejects
SubCall(event, up) ==
  /\ subPc \in {"ready", "returned"}
  /\ Len(subReceived) < MaxCalls
  /\ UNCHANGED <<pageVars, ingestVars, draftVars, csvVars, staticVars,
                 callVars>>
  /\ LET r == handler(event, up) IN
     /\ subPc' = "returned"
     /\ subEvent' = event
     /\ subSent' = r.sent
     /\ subResponse' = r.response
     /\ subUpstream' = IF r.sent = <<>> THEN [kind |-> "none"] ELSE up
     /\ subReceived' = IF up.kind = "response"
                         THEN subReceived \o r.sent ELSE subReceived

\* The events the function is called with: a method, the headers object
\* (absent, or with the content type it holds, undefined when it holds
\* none) and the body (null when the request had none).  What becomes of
\* the request fetch sends: the promise rejects (the endpoint is not
\* reached), or the endpoint answers with a status and the body of the
\* answer can be read (bdRes.text()) or not.
SubNext ==
  LET Events ==
        [ httpMethod : {Wire.POST, Wire.GET},
          headers    : {[present |-> FALSE, contentType |-> undefined]} \cup
                       [present : {TRUE},
                        contentType : {undefined, Wire.formType, Wire.formUtf8,
                                       Wire.jsonType}],
          body       : {null, Wire.formA, Wire.formPadded, Wire.formPlus,
                        Wire.formSecond, Wire.formEmpty, Wire.formBlank,
                        Wire.formOther, Wire.jsonA, Wire.jsonPadded,
                        Wire.jsonPlus, Wire.jsonEmpty, Wire.jsonNumber,
                        Wire.emptyObject, Wire.nullText} ]
      Upstreams ==
        {[kind |-> "rejects", status |-> 0, textOk |-> FALSE]} \cup
        [kind : {"response"}, status : {200, 204, 304, 400, 500},
         textOk : BOOLEAN]
  IN \E event \in Events, up \in Upstreams : SubCall(event, up)

(***************************************************************************)
(* Specifications                                                          *)
(***************************************************************************)
vars ==
  <<pageVars, ingestVars, draftVars, csvVars, staticVars, callVars, subVars>>

\* a visitor on the list page
Init == PageInit /\ IngestIdle /\ CsvIdle /\ StaticIdle /\ CallsIdle /\ SubIdle

Next == PageNext

Spec == Init /\ [][Next]_vars

\* the ingestion workflow, run issue after issue
InitIngest ==
  IngestStart /\ PageIdle /\ CsvIdle /\ StaticIdle /\ CallsIdle /\ SubIdle

SpecIngest == InitIngest /\ [][IngestNext]_vars

\* the workflow with the copy of the script that drafts an article
SpecDraft == InitIngest /\ [][DraftNext]_vars

\* a visitor on one of the three pages of the site
NextSite == PageNext \/ CsvNext \/ StaticNext

SpecSite ==
  /\ \/ PageInit /\ IngestIdle /\ CsvIdle /\ StaticIdle /\ CallsIdle /\ SubIdle
     \/ CsvInit /\ IngestIdle /\ PageIdle /\ StaticIdle /\ CallsIdle /\ SubIdle
     \/ StaticInit /\ IngestIdle /\ PageIdle /\ CsvIdle /\ CallsIdle /\ SubIdle
  /\ [][NextSite]_vars

\* one call of calculateDaysLeft or of getUrgencyBadge
InitCalls ==
  CallsInit /\ PageIdle /\ IngestIdle /\ CsvIdle /\ StaticIdle /\ SubIdle

SpecCalls == InitCalls /\ [][CallsNext]_vars

\* the subscribe function, called event after event
InitSubscribe ==
  SubInit /\ PageIdle /\ IngestIdle /\ CsvIdle /\ StaticIdle /\ CallsIdle

SpecSubscribe == InitSubscribe /\ [][SubNext]_vars

(***************************************************************************)
(* Saved set                                                               *)
(***************************************************************************)
\* the list the text under 'eosguide-saved' stands for
StoredList == JSONparse(Or(stored, <<"[", "]">>))

\* C1: toggleSaved(x) for an id x that is not in the saved list S yields a
\* list that holds x; when the next toggle is toggleSaved(x) again (whatever
\* other events ran in between), the saved list in memory and the list
\* persisted under 'eosguide-saved' are both S again.
C1_ToggleTwiceRestores ==
  /\ tog.phase = "added" =>
       /\ ~ArrayIncludes(tog.saved0, tog.id)
       /\ ArrayIncludes(savedOpportunities.items, tog.id)
  /\ tog.phase = "closed" =>
       /\ savedOpportunities = [kind |-> "array", items |-> tog.saved0]
       /\ ~StoredList.threw
       /\ StoredList.kind = "array"
       /\ StoredList.items = tog.saved0

\* a pair of toggles of one id closed on a saved list that was not empty
C1_Witness == tog.phase = "closed" /\ tog.saved0 # <<>>

\* C2: once the script has read the store, the text under 'eosguide-saved'
\* stands for the saved list in memory, and is exactly its serialization
\* unless the key is absent; only toggleSaved changes the list or the text:
\* it flips the membership of the one id it was given and leaves the
\* serialization of the whole list in the store.
C2_StoredIsSavedList ==
  (pc = "ready" /\ savedOpportunities.kind = "array") =>
     /\ ~StoredList.threw
     /\ StoredList.kind = "array"
     /\ StoredList.items = savedOpportunities.items
     /\ stored # null => stored = JSONstringify(savedOpportunities.items)

C2_OnlyToggleFlips ==
  (pc = "ready" /\ (savedOpportunities' # savedOpportunities
                      \/ stored' # stored)) =>
     \E c \in Range(grid.cards) :
        /\ toggleSaved(c.id)
        /\ ArrayIncludes(savedOpportunities'.items, c.id)
             = ~ArrayIncludes(savedOpportunities.items, c.id)
        /\ \A x \in Range(savedOpportunities.items)
                    \cup Range(savedOpportunities'.items) :
              x # c.id => Count(savedOpportunities'.items, x)
                           = Count(savedOpportunities.items, x)
        /\ stored' = JSONstringify(savedOpportunities'.items)

C2_PersistsFullSet == []C2_StoredIsSavedList /\ [][C2_OnlyToggleFlips]_vars

\* a toggle has just removed an id from a list that holds another id
C2_Witness ==
  /\ tog.phase = "idle"
  /\ savedOpportunities.items # <<>>
  /\ stored = JSONstringify(savedOpportunities.items)
  /\ \E c \in Range(grid.cards) :
        ~ArrayIncludes(savedOpportunities.items, c.id)

\* C3: the script never ends in the SyntaxError of JSON.parse, and when the
\* key 'eosguide-saved' is absent or its text cannot be parsed the saved
\* list is empty once the script ran.
C3_LoadNeverThrows ==
  /\ pc # "crashed"
  /\ (pc = "ready" /\ tog.phase = "idle" /\ (stored = null \/ StoredList.threw))
        => savedOpportunities = [kind |-> "array", items |-> <<>>]

(***************************************************************************)
(* What the grid shows                                                     *)
(***************************************************************************)
\* the loaded records whose id is in the saved list
SavedRecords ==
  SelectSeq(opportunities,
            LAMBDA opp : ArrayIncludes(savedOpportunities.items, opp.id))

\* C4: with category 'saved', no state selected and an empty search, the
\* grid shows exactly the loaded records whose id is in the saved list, and
\* nothing when the saved list is empty.
C4_SavedShowsExactlySaved ==
  (/\ fresh
   /\ currentCategory = Txt.saved
   /\ currentSearch = <<>>
   /\ selectedState = <<>>) =>
     /\ SamePopulation(grid.cards, SavedRecords)
     /\ savedOpportunities.items = <<>> => grid.cards = <<>>

\* C6: in the grid no record that is not featured stands before a featured
\* one.
C6_FeaturedFirst ==
  \A i, j \in DOMAIN grid.cards :
     i < j => ~(~grid.cards[i].featured /\ grid.cards[j].featured)

\* a featured card stands before a card that is not featured and has fewer
\* days left
C6_Witness ==
  \E i, j \in DOMAIN grid.cards :
     /\ i < j
     /\ grid.cards[i].featured /\ ~grid.cards[j].featured
     /\ SortDays(grid.cards[i]) > SortDays(grid.cards[j])

\* a record with a deadline that is still to come
RealUpcoming(opp) ==
  /\ opp.daysLeft > 0
  /\ DateParse(Or(opp.deadline, <<>>)) # NaN

\* C7: among the cards with the same featured flag the order is ascending
\* in daysLeft with 0 counted as 999, and no card with daysLeft 0 stands
\* before a card whose deadline is still to come.
C7_SoonestFirst ==
  \A i, j \in DOMAIN grid.cards :
     (i < j /\ grid.cards[i].featured = grid.cards[j].featured) =>
        /\ SortDays(grid.cards[i]) <= SortDays(grid.cards[j])
        /\ ~(grid.cards[i].daysLeft = 0 /\ RealUpcoming(grid.cards[j]))

\* the state rule of the specification, read off the state table
PassesState(opp, sel) ==
  \/ opp.state = sel
  \/ \E i \in DOMAIN StateTable :
        StateTable[i][1] = sel /\ opp.state = StateTable[i][2]
  \/ opp.state = Txt.Nationwide

\* the loaded records the category and the search text let through
PassOtherFilters ==
  SelectSeq(opportunities, LAMBDA opp :
     /\ MatchesCategory(opp, currentCategory, savedOpportunities)
     /\ MatchesSearch(opp, currentSearch))

\* C8: with a two-letter code selected the grid shows, of the records the
\* other filters let through, exactly those whose state is the code, the
\* full name the table gives for the code, or 'Nationwide'; with the empty
\* selection it shows all of them.
C8_StateFilter ==
  (fresh /\ selectedState # Txt.Nationwide) =>
     SamePopulation(grid.cards,
        SelectSeq(PassOtherFilters, LAMBDA opp :
           selectedState = <<>> \/ PassesState(opp, selectedState)))

\* a code is selected; the grid shows a record filed under the full name
\* and leaves out a record of another state
C8_Witness ==
  /\ fresh
  /\ selectedState = Txt.CA
  /\ \E c \in Range(grid.cards) : c.state = stateMapping(Txt.CA)
  /\ \E opp \in Range(PassOtherFilters) : opp.state = Txt.TX

\* C9: with 'Nationwide' selected the grid shows, of the records the other
\* filters let through, exactly those whose state is 'Nationwide'.
C9_NationwideOnly ==
  (fresh /\ selectedState = Txt.Nationwide) =>
     SamePopulation(grid.cards,
        SelectSeq(PassOtherFilters, LAMBDA opp : opp.state = Txt.Nationwide))

\* 'Nationwide' is selected; the grid shows a record and leaves out a
\* record of a state
C9_Witness ==
  /\ fresh
  /\ selectedState = Txt.Nationwide
  /\ grid.cards # <<>>
  /\ \E opp \in Range(PassOtherFilters) : opp.state = Txt.CA

\* C21: whenever the grid has been rendered with no card, the no-results
\* panel is shown, and it is hidden when there are cards; its message is
\* the one for "no saved items yet" exactly when the category is 'saved'
\* and no loaded record is in the saved list, and the one for "no matches"
\* otherwise, also when saved records exist and the state filter leaves
\* none of them.
C21_EmptyMessage ==
  fresh =>
    IF grid.cards # <<>>
    THEN noResults = "hidden"
    ELSE noResults = (IF currentCategory = Txt.saved /\ SavedRecords = <<>>
                      THEN "saved" ELSE "search")

\* C22: with the category 'ending', the grid shows exactly the loaded
\* records that pass the state and the text filter and whose daysLeft is
\* above 0 and below 30; a record with daysLeft 0, 30 or more, -1 or 999 is
\* not shown.
C22_EndingSoon ==
  (fresh /\ currentCategory = Txt.ending) =>
    SamePopulation(grid.cards,
      SelectSeq(opportunities, LAMBDA opp :
         /\ MatchesState(opp, selectedState)
         /\ MatchesSearch(opp, currentSearch)
         /\ 0 < opp.daysLeft
         /\ opp.daysLeft < 30))

(***************************************************************************)
(* The text filter                                                         *)
(***************************************************************************)
\* C19: on the list page, with a saved list that is an array, filtering the
\* loaded records raises no error, a record without title or description
\* counting as one with the empty text there; and the grid shows, of the
\* records the state and the category let through, exactly those whose
\* title and description, joined and in lower case, contain the query in
\* lower case (all of them for the empty query).
C19_TextFilter ==
  (pc = "ready" /\ savedOpportunities.kind = "array") =>
    /\ ~renderOpportunities(opportunities, currentCategory, currentSearch,
                            selectedState, savedOpportunities).threw
    /\ fresh =>
         SamePopulation(grid.cards,
           SelectSeq(opportunities, LAMBDA opp :
              /\ MatchesState(opp, selectedState)
              /\ MatchesCategory(opp, currentCategory, savedOpportunities)
              /\ includes(toLowerCase(Or(opp.title, <<>>)
                                        \o Or(opp.description, <<>>)),
                          toLowerCase(currentSearch))))

(***************************************************************************)
(* Search and category                                                     *)
(***************************************************************************)
\* C24: a step that puts a non-blank query into the search of the list page
\* leaves the category at 'all', and the grid it renders holds exactly the
\* loaded records that pass the state filter and contain the query; a
\* firing of the debounced search listener of the CSV page with a
\* non-blank query leaves the category at 'All', and the page it renders
\* is that of the rows filtered by query, state, speed, difficulty and
\* proof with no category.
C24_Step ==
  /\ (currentSearch' # currentSearch /\ trim(currentSearch') # <<>>) =>
       /\ currentCategory' = Txt.all
       /\ fresh' =>
            SamePopulation(grid'.cards,
              SelectSeq(opportunities', LAMBDA opp :
                 /\ MatchesState(opp, selectedState')
                 /\ MatchesSearch(opp, currentSearch')))
  /\ (timer = 1 /\ timer' = 0 /\ trim(searchInput) # <<>>) =>
       /\ CURRENT_CATEGORY' = Txt.All
       /\ csvView' = Rendered(applyFilters(ALL_ROWS, CURRENT_STATE, <<>>,
                                           searchInput, speedSelect,
                                           difficultySelect, proofSelect).rows)

C24_SearchOverridesCategory == [][C24_Step]_vars

\* the list page after a search for 'grant' by a visitor who has saved a
\* record: the grid holds a record that is not saved
C24_Witness ==
  /\ pc = "ready"
  /\ fresh
  /\ currentSearch = Txt.grant
  /\ currentCategory = Txt.all
  /\ savedOpportunities.items # <<>>
  /\ \E i \in DOMAIN grid.cards :
        ~ArrayIncludes(savedOpportunities.items, grid.cards[i].id)

\* C27: every run of mobileNavSaved, from any state of the page and however
\* often it is repeated, ends with the category 'saved', and when its render
\* went through the grid holds only records whose id is in the saved list.
C27_Step ==
  mobileNavSaved =>
    /\ currentCategory' = Txt.saved
    /\ fresh' => \A i \in DOMAIN grid'.cards :
                    ArrayIncludes(savedOpportunities'.items, grid'.cards[i].id)

C27_NavSavedShowsSaved == [][C27_Step]_vars

(***************************************************************************)
(* The order of the CSV page                                               *)
(***************************************************************************)
\* row a may stand before row b: by the rank of the category the category
\* filter matches the row by (the trimmed cell), then the rank of
\* priority_for_user, then the rank of money_speed, then date_found, the
\* later date first
MayPrecede(a, b) ==
  LET catA == CategoryRank(trim(Or(a.category, <<>>)))
      catB == CategoryRank(trim(Or(b.category, <<>>)))
      prA  == priorityOrder(toLowerCase(Or(a.priority_for_user, <<>>)))
      prB  == priorityOrder(toLowerCase(Or(b.priority_for_user, <<>>)))
      spA  == speedOrder(Or(a.money_speed, <<>>))
      spB  == speedOrder(Or(b.money_speed, <<>>))
  IN IF catA # catB THEN catA < catB
     ELSE IF prA # prB THEN prA < prB
     ELSE IF spA # spB THEN spA < spB
     ELSE ~StrLess(Or(a.date_found, <<>>), Or(b.date_found, <<>>))

\* C20: each list of the CSV page (spotlight, money first, assistance)
\* shows its rows in the order of the keys category rank, priority rank,
\* speed rank, date found descending, an earlier key deciding before a
\* later one, the category rank being that of the category by which the
\* category filter matches the row.
C20_RowOrder ==
  \A list \in {csvView.spotlight, csvView.money, csvView.assist} :
     \A i, j \in DOMAIN list : i < j => MayPrecede(list[i], list[j])

(***************************************************************************)
(* The load of the dataset                                                 *)
(***************************************************************************)
\* C12: the page issues one load request: at no time is more than one
\* loadOpportunities call waiting for its response, so that one completion,
\* and one re-render by it, is all that can follow the start of the page.
C12_SingleLoad == pending <= 1

\* C15: every loaded record satisfies the defaults: a record whose raw
\* category is absent has the category 'Other', one whose raw state is
\* absent the state 'Nationwide', one whose raw difficulty is absent the
\* difficulty 'Medium'.
C15_DefaultsApplied ==
  \A i \in DOMAIN opportunities :
     /\ serverData[i].category = undefined
           => opportunities[i].category = Txt.Other
     /\ serverData[i].state = undefined
           => opportunities[i].state = Txt.Nationwide
     /\ serverData[i].difficulty = undefined
           => opportunities[i].difficulty = Txt.Medium

\* C13: a load that fails ends in a visible empty or error state: when a
\* loadOpportunities call ends in its catch block (the fetch failed, the
\* response was not ok, or the body could not be read or rendered) the grid
\* shows the "Unable to load" text, and when Papa.parse calls the error
\* callback of loadData the CSV page shows a message in place of results.
C13_Step ==
  /\ (pending' < pending /\ ~fresh') => grid'.error
  /\ (csvPc = "loading" /\ csvPc' = "failed") => csvView'.empty

C13_FailedLoadShown == [][C13_Step]_vars

\* C26: once a load has filled `opportunities` and the grid has been
\* rendered from it, no completion of a load, successful or failed, leaves
\* the grid with the 'Unable to load opportunities' text while
\* `opportunities` is not empty.
C26_Step ==
  (/\ opportunities # <<>>
   /\ ~grid.error
   /\ pending' < pending) => ~(grid'.error /\ opportunities' # <<>>)

C26_NoErrorOverData == [][C26_Step]_vars

(***************************************************************************)
(* The debounce of the search box                                          *)
(***************************************************************************)
\* C14: for a burst of key strokes in the search box, each less than 250 ms
\* after the one before, the debounced listener (and renderAll in it) runs
\* once, after the last of them: a key stroke (a step that puts a new text
\* into the box) renders nothing; the listener
\* runs only when the full delay has passed since the last key stroke and a
\* burst is waiting for it; and at any time at most one burst is waiting,
\* with a timeout set for it that is due 250 ms after its last key stroke.
C14_Pending ==
  /\ burst.owed <= 1
  /\ (burst.owed = 1) <=> (timer > 0)
  /\ (timer > 0) => (timer = DebounceTicks - burst.quiet)

C14_Step ==
  /\ (searchInput' # searchInput /\ searchInput' # <<>>)
        => (csvView' = csvView /\ ALL_ROWS' = ALL_ROWS /\ burst'.quiet = 0)
  /\ (timer # 0 /\ timer' = 0)
        => (burst'.quiet = DebounceTicks /\ burst.owed = 1)

C14_OncePerBurst == []C14_Pending /\ [][C14_Step]_vars

\* the listener has run, once, for a burst of two or more key strokes
C14_Witness ==
  /\ csvPc = "ready"
  /\ timer = 0
  /\ burst = [quiet |-> DebounceTicks, keys |-> MaxKeys, owed |-> 0]
  /\ searchInput # <<>>
  /\ csvView.money # <<>>

(***************************************************************************)
(* calculateDaysLeft and getUrgencyBadge                                   *)
(***************************************************************************)
\* a text that reads as a calendar date: YYYY-MM-DD or M/D/Y, of numbers,
\* with a month of the year and a day of that month
ReadsAsDate(raw) ==
  \/ /\ LooksISO(raw)
     /\ DigitsToNat(SubSeq(raw, 6, 7)) \in 1..12
     /\ DigitsToNat(SubSeq(raw, 9, 10)) \in
           1..DaysInMonth(DigitsToNat(SubSeq(raw, 1, 4)),
                          DigitsToNat(SubSeq(raw, 6, 7)))
  \/ LET parts == SplitSlash(raw) IN
     /\ Len(parts) = 3
     /\ \A k \in 1..3 : /\ parts[k] # <<>>
                        /\ \A i \in DOMAIN parts[k] : IsDigit(parts[k][i])
     /\ DigitsToNat(parts[1]) \in 1..12
     /\ DigitsToNat(parts[2]) \in
           1..DaysInMonth(DigitsToNat(parts[3]), DigitsToNat(parts[1]))

\* C16: calculateDaysLeft returns -1 for an absent or blank deadline, 999
\* for the whole words ongoing, none, n/a, na and for a text that contains
\* rolling, varies or tbd (in any case of letters), and -1 for every other
\* text that does not read as a date.
C16_SentinelsAndFailures ==
  (callPc = "returned" /\ callIn.fn = "calculateDaysLeft") =>
    LET raw   == IF callIn.deadlineStr = undefined THEN <<>>
                 ELSE trim(callIn.deadlineStr)
        lower == toLowerCase(raw)
        word  == \/ lower \in {Txt.ongoing, Txt.none, Txt.n_a, Txt.na}
                 \/ \E w \in {Txt.rolling, Txt.varies, Txt.tbd} :
                       includes(lower, w)
    IN /\ raw = <<>> => callOut = -1
       /\ (raw # <<>> /\ word) => callOut = 999
       /\ (raw # <<>> /\ ~word /\ ~ReadsAsDate(raw)) => callOut = -1

\* C17: at every instant and in every zone, calculateDaysLeft of the ISO
\* date of the local day after today is 1, and of the ISO date of the local
\* day before today is below 0.
C17_TomorrowIsOne ==
  (callPc = "returned" /\ callIn.fn = "calculateDaysLeft") =>
    LET localToday == (callIn.clock.nowH + callIn.clock.tz) \div 24 IN
    /\ callIn.deadlineStr = ISODate(localToday + 1) => callOut = 1
    /\ callIn.deadlineStr = ISODate(localToday - 1) => callOut < 0

\* C18: the badge is decided by the day count d (urgencyDays, or daysLeft
\* when there is none): for d in 0..900 the urgent tier up to 7, the
\* warning tier up to 30, the notice tier up to 60 and no badge above; no
\* badge for d outside 0..900.
C18_BadgeTiers ==
  (callPc = "returned" /\ callIn.fn = "getUrgencyBadge") =>
    LET d == IF callIn.urgencyDays # 0 THEN callIn.urgencyDays
             ELSE callIn.daysLeft
    IN callOut = IF d \notin 0..900 THEN ""
                 ELSE IF d <= 7 THEN "urgent"
                 ELSE IF d <= 30 THEN "warning"
                 ELSE IF d <= 60 THEN "notice"
                 ELSE ""

(***************************************************************************)
(* The subscribe function                                                  *)
(***************************************************************************)
\* the email a request carries, read off its body by hand: a form body
\* under a form content type, a JSON body under any other content type;
\* <<>> when it carries none or its body does not fit its content type
CarriedEmail(event) ==
  LET declaredForm == event.headers.contentType \in {Wire.formType, Wire.formUtf8}
  IN
  IF ~event.headers.present THEN <<>>
  ELSE IF declaredForm /\ event.body \in {Wire.formA, Wire.formPadded, Wire.formSecond}
    THEN Wire.a_b
  ELSE IF declaredForm /\ event.body = Wire.formPlus THEN Wire.cd_b
  ELSE IF ~declaredForm /\ event.body \in {Wire.jsonA, Wire.jsonPadded}
    THEN Wire.a_b
  ELSE IF ~declaredForm /\ event.body = Wire.jsonPlus THEN Wire.cd_b
  ELSE <<>>

\* the POST events whose parsing raises an exception: no headers object,
\* or, under a content type other than the form one, a body that is not
\* JSON, the JSON text null, or a number as email
ParsingThrows(event) ==
  \/ ~event.headers.present
  \/ /\ event.headers.contentType \notin {Wire.formType, Wire.formUtf8}
     /\ event.body \in {Wire.formA, Wire.formPadded, Wire.formPlus,
                        Wire.formSecond, Wire.formEmpty, Wire.formBlank,
                        Wire.formOther, Wire.nullText, Wire.jsonNumber}

\* C23: after a POST that carries a non-empty email, form-encoded or JSON,
\* exactly one request was sent and the email the endpoint reads from it is
\* that email; the response is 200 with ok true if and only if the endpoint
\* answered with a 2xx status, ok false for any other status, and 500 with
\* ok false when fetch or the reading of the answer failed; after a POST
\* whose parsing raised an exception the response is 500 with ok false.
C23_ForwardsAndReports ==
  (subPc = "returned" /\ subEvent.httpMethod = Wire.POST) =>
    /\ CarriedEmail(subEvent) # <<>> =>
         /\ Len(subSent) = 1
         /\ URLSearchParamsGet(subSent[1], Wire.email) = CarriedEmail(subEvent)
         /\ IF subUpstream.kind = "response" /\ subUpstream.textOk
              THEN /\ subResponse = [statusCode |-> 200, ok |-> "true"]
                      <=> subUpstream.status \in 200..299
                   /\ subUpstream.status \notin 200..299
                      => subResponse.ok = "false"
              ELSE subResponse = [statusCode |-> 500, ok |-> "false"]
    /\ ParsingThrows(subEvent) =>
         subResponse = [statusCode |-> 500, ok |-> "false"]

\* a form-encoded email with a '+' was forwarded and the endpoint answered
\* 204
C23_Witness ==
  /\ subPc = "returned"
  /\ subEvent.httpMethod = Wire.POST
  /\ CarriedEmail(subEvent) = Wire.cd_b
  /\ subEvent.body = Wire.formPlus
  /\ subUpstream.kind = "response"
  /\ subUpstream.status = 204
  /\ subUpstream.textOk
  /\ subResponse.statusCode = 200

\* C30: a call sends a request only if the method is POST and the event
\* carries an email that is not blank, and then only one; any other method
\* gets 405; a POST that parses and carries no email, or a blank one, gets
\* 400; and the status of every response is 200, 400, 405 or 500.
C30_GuardedForward ==
  subPc = "returned" =>
    /\ subSent # <<>> =>
         /\ subEvent.httpMethod = Wire.POST
         /\ CarriedEmail(subEvent) # <<>>
         /\ Len(subSent) = 1
    /\ subEvent.httpMethod # Wire.POST =>
         subResponse = [statusCode |-> 405, ok |-> "absent"]
    /\ (/\ subEvent.httpMethod = Wire.POST
        /\ ~ParsingThrows(subEvent)
        /\ CarriedEmail(subEvent) = <<>>) =>
         subResponse = [statusCode |-> 400, ok |-> "absent"]
    /\ subResponse.statusCode \in {200, 400, 405, 500}

\* a form-encoded POST whose email is one blank was answered 400 and
\* nothing was sent
C30_Witness ==
  /\ subPc = "returned"
  /\ subEvent.httpMethod = Wire.POST
  /\ subEvent.headers.contentType = Wire.formType
  /\ subEvent.body = Wire.formBlank
  /\ subResponse.statusCode = 400
  /\ subSent = <<>>

C11_NoDuplicates ==
  \A i, j \in DOMAIN dataFile :
     i # j => /\ safeStr(dataFile[i].id) # safeStr(dataFile[j].id)
              /\ safeStr(dataFile[i].url) # safeStr(dataFile[j].url)

C11_Step ==
  ( /\ wrote'
    /\ newItem' # <<>>
    /\ \E i \in DOMAIN dataFile :
          /\ ~isExpired(safeStr(dataFile[i].deadline), utcToday)
          /\ \/ safeStr(dataFile[i].id) = newItem'[1].id
             \/ safeStr(dataFile[i].url) = newItem'[1].url )
  => Range(dataFile') \subseteq Range(dataFile)

C11_DedupeByIdOrUrl == []C11_NoDuplicates /\ [][C11_Step]_vars

\* a run has just turned down a submission whose url is that of a record in
\* the file although its id is new
C11_Witness ==
  /\ wrote
  /\ newItem # <<>>
  /\ \E i \in DOMAIN dataFile : safeStr(dataFile[i].url) = newItem[1].url
  /\ \A i \in DOMAIN dataFile : safeStr(dataFile[i].id) # newItem[1].id

\* the day a deadline of the written file names
DayOf(deadline) ==
  CHOOSE n \in (Today - 3)..(Today + MaxDays + 3) : ISODate(n) = deadline

\* the position of the record x in the list s (0 when it is not there)
PositionIn(s, x) ==
  IF \E i \in DOMAIN s : s[i] = x THEN CHOOSE i \in DOMAIN s : s[i] = x ELSE 0

\* C25: in the file a run has written, no record is followed by one with an
\* earlier deadline, and no record with a blank deadline is followed by one
\* that has a deadline; and among records of equal deadline the order is
\* that of the list before the sort: the records kept from the old file in
\* their old order, after the new item if it was added.
C25_Sorted ==
  wrote =>
    \A i, j \in DOMAIN dataFile :
       i < j =>
         IF dataFile[i].deadline = <<>> THEN dataFile[j].deadline = <<>>
         ELSE \/ dataFile[j].deadline = <<>>
              \/ DayOf(dataFile[i].deadline) <= DayOf(dataFile[j].deadline)

C25_Step ==
  wrote' =>
    \A x, y \in Range(dataFile') :
       (/\ x # y
        /\ x.deadline = y.deadline
        /\ \/ /\ PositionIn(dataFile, x) > 0
              /\ PositionIn(dataFile, x) < PositionIn(dataFile, y)
           \/ /\ PositionIn(dataFile, x) = 0
              /\ PositionIn(dataFile, y) > 0)
       => PositionIn(dataFile', x) < PositionIn(dataFile', y)

C25_SortedByDeadline == []C25_Sorted /\ [][C25_Step]_vars

\* a run has added an item with a blank deadline, and the sort has moved it
\* behind the record of the file that has a deadline
C25_Witness ==
  /\ wrote
  /\ Len(dataFile) = 2
  /\ newItem = <<dataFile[2]>>
  /\ dataFile[2].deadline = <<>>
  /\ dataFile[1].deadline # <<>>

\* C28: in the copy of the script that drafts an article, the data file has
\* been written whenever the page fetch or the summarization is about to
\* be attempted or has been attempted; no step of the fetch or of the
\* summarization, failed or not, changes the data file or ends the run
\* with a failure; and a draft exists only if the summarization returned an
\* object with a non-empty article_markdown.
C28_Written ==
  /\ (runPc \in {"fetch", "summarize"} \/ rawText # <<>> \/ ai.kind # "none")
        => wrote
  /\ draft # <<>> =>
        /\ ai.kind = "parsed"
        /\ ai.article_markdown \notin {undefined, <<>>}

C28_Step ==
  runPc \in {"fetch", "summarize"} =>
    /\ dataFile' = dataFile
    /\ exitCode' # "failed"

C28_DraftNeverHarms == []C28_Written /\ [][C28_Step]_vars

\* a run has ended well whose page fetch failed, which fell back to the
\* source text of the issue, and whose summary could not be parsed
C28_Witness ==
  /\ runPc = "done"
  /\ wrote
  /\ rawText = Txt.taxes
  /\ ai.kind = "unparsable"
  /\ draft = <<>>
  /\ exitCode = "ok"
  /\ dataFile # <<>>

\* C29: a run on an issue without title, without description or without
\* both URLs (a missing body has none of them) ends with a failure and
\* leaves the data file as it was, expired records and order included.
C29_Step ==
  issue' => (exitCode' = "failed" /\ dataFile' = dataFile)

C29_FailsBeforeTheFile == [][C29_Step]_vars

\* a run has failed on such an issue while the file held an expired record
C29_Witness ==
  /\ issue
  /\ exitCode = "failed"
  /\ \E i \in DOMAIN dataFile :
        isExpired(safeStr(dataFile[i].deadline), utcToday)

(***************************************************************************)
(* The loaded dataset                                                      *)
(***************************************************************************)
\* C5: the dataset in memory is the one that was loaded, record for record
\* and in its order (`opportunities` is empty or the mapped data file,
\* ALL_ROWS is empty or the parsed CSV file), and no step of a page other
\* than the arrival of the data changes it: `opportunities` changes only
\* when a loadOpportunities call completes, ALL_ROWS only when Papa.parse
\* completes, and the cards of the static page never; the handlers change
\* what is displayed only.
C5_AsLoaded ==
  /\ opportunities \in {<<>>, MapOpportunities(serverData, clock)}
  /\ ALL_ROWS \in {<<>>, csvFile}

C5_Step ==
  /\ (pending' = pending) => (opportunities' = opportunities)
  /\ (csvPc' = csvPc) => (ALL_ROWS' = ALL_ROWS)
  /\ stCards' = stCards

C5_DatasetUntouched == []C5_AsLoaded /\ [][C5_Step]_vars

\* a handler of each page has rendered fewer records than are loaded
C5_WitnessList ==
  /\ fresh /\ pending = 0
  /\ Len(opportunities) = 2
  /\ Len(grid.cards) = 2
  /\ grid.cards # opportunities

C5_WitnessCsv ==
  /\ csvPc = "ready"
  /\ Len(ALL_ROWS) = 2
  /\ Len(csvView.money) + Len(csvView.assist) = 2
  /\ csvView.money \o csvView.assist # ALL_ROWS

C5_WitnessStatic ==
  /\ stPc = "ready"
  /\ \E i \in DOMAIN stCards : ~stDisplay[i]

====
